---- MODULE Spec2Model ----
(***************************************************************************)
(* A model of the core of wtx: the prepared-statement cache of the         *)
(* PostgreSQL executor (database/client/rdbms/statements.rs), the lock     *)
(* abstraction (misc/lock.rs), the HTTP/2 server stream                    *)
(* (http2/server_stream.rs), the WebSocket frame-header reader             *)
(* (web_socket/read_frame_info.rs), the simple query, the error parser and *)
(* the value codec of the PostgreSQL client (database/client/postgres).    *)
(*                                                                         *)
(* Each subsystem has its own variables and its own specification; a       *)
(* specification leaves the variables of the other subsystems untouched.   *)
(***************************************************************************)
EXTENDS Integers, Sequences, FiniteSets, TLC

(***************************************************************************)
(* Generic helpers                                                         *)
(***************************************************************************)
None == <<>>

Some(x) == <<x>>

Max(a, b) == IF a >= b THEN a ELSE b

Min(a, b) == IF a <= b THEN a ELSE b

(***************************************************************************)
(* State of Statements<A, C, T>                                            *)
(*   max_stmts, rs, stmts, stmts_indcs : the fields of the struct          *)
(*   sb          : 0, or the id for which a StatementBuilder is alive      *)
(* History (ghost) variables, read only by the properties                  *)
(*   st_op       : the last operation performed on the cache               *)
(*   first_id    : the id of the first statement ever built (0: none)      *)
(*   n_builder   : number of builder calls                                 *)
(*   n_build     : number of build calls                                   *)
(*   n_evicted   : number of statements popped by builder                  *)
(*   n_since_clear : number of build calls since the last clear            *)
(*   ev_since_clear: statements popped since the last clear                *)
(*   cb_failed   : an eviction callback has returned an error              *)
(*   cleared     : clear has been called                                   *)
(*   live        : id -> statement built under it and not popped/cleared   *)
(*   gone        : ids whose statement was popped or cleared since built   *)
(*   held        : a handle <<id, idx>> a caller kept from a build, or <<>>*)
(*   n_ids       : ids are interchangeable, so a behaviour uses them in    *)
(*                 order: the ids used so far are 1..n_ids                 *)
(*   cb_log      : the ids stmt_cb was called with by the last call of     *)
(*                 builder, in the order of the calls                      *)
(*   fifo        : the ids built and neither handed to stmt_cb nor         *)
(*                 cleared, in the order they were built                   *)
(***************************************************************************)
VARIABLES max_stmts, rs, stmts, stmts_indcs, sb,
          st_op, first_id, n_builder, n_build, n_evicted, n_since_clear,
          ev_since_clear, cb_failed, cleared, live, gone, held, n_ids,
          cb_log, fifo

(***************************************************************************)
(* State of the lock abstraction                                          *)
(*   lk_kind     : the implementation behind the Arc / Rc handles          *)
(*   lk_owner    : cell -> the task that holds its guard, or 0             *)
(*                 (the borrow flag of the RefCell, the state of the mutex)*)
(*   lk_poisoned : cell -> the poison flag of a std::sync::Mutex           *)
(*   lk_value    : cell -> the resource                                    *)
(*   lk_waiters  : cell -> the tasks whose waker the mutex has stored       *)
(*   lk_arc      : task -> the cell its Arc / Rc handle points to          *)
(*   lk_pc       : task -> "idle", "locking" (inside lock, to be polled),  *)
(*                 "pending" (lock returned Poll::Pending; polled again    *)
(*                 only after a wake), "holding" (owns the guard)          *)
(* History                                                                 *)
(*   lk_obj      : task -> the lock object its handle was cloned from      *)
(*   lk_last     : lock object -> the value last written through a guard   *)
(***************************************************************************)
VARIABLES lk_kind, lk_owner, lk_poisoned, lk_value, lk_waiters, lk_arc, lk_pc,
          lk_obj, lk_last

(***************************************************************************)
(* State of an HTTP/2 server connection and its ServerStream handles       *)
(*   h2_guard    : the handle that holds the MutexGuard of Http2Data, or 0 *)
(*   sorp        : stream id -> [stream_state, windows, sb], the streams   *)
(*                 whose request is still being received                   *)
(*   scrp        : stream id -> [stream_state, windows], the streams whose *)
(*                 request was handed over and whose response is due       *)
(*   is_conn_open: the flag of the connection                              *)
(*   h2_method   : handle -> the method of its ServerStream                *)
(*   h2_pc       : handle -> where the handle's current call stands        *)
(*   h2_ret      : handle -> what its last recv_req returned, or <<>>      *)
(***************************************************************************)
VARIABLES h2_guard, sorp, scrp, is_conn_open, h2_method, h2_pc, h2_ret

(***************************************************************************)
(* State of a run of the WebSocket frame-header reader                     *)
(*   ws_is_client, ws_no_masking, ws_nc, ws_max_payload_len : the          *)
(*                 parameters of from_bytes / from_stream                  *)
(*   ws_usize_bits : the width of usize on the target                      *)
(*   ws_input    : the bytes the peer sent                                 *)
(*   ws_bytes    : the caller's cursor `bytes: &mut &[u8]` of from_bytes   *)
(*   ws_result   : what from_bytes returned, or <<>>                       *)
(*   ws_stream   : the bytes the stream has yet to deliver                 *)
(*   ws_buffer   : the bytes from_stream has read into the network buffer  *)
(*                 (the read counter is its length)                        *)
(*   ws_ctx      : the locals of from_stream between its awaits            *)
(*   ws_sresult  : what from_stream returned, or <<>>                      *)
(*   ws_cancels  : how often the future of from_stream was dropped         *)
(*   ws_pc       : "start", "bytes_done" (from_bytes has returned),        *)
(*                 "s_len", "s_mask" (from_stream stands before the read   *)
(*                 of the extended length, of the mask), "stream_done"     *)
(***************************************************************************)
VARIABLES ws_is_client, ws_no_masking, ws_nc, ws_max_payload_len,
          ws_usize_bits, ws_input, ws_bytes, ws_result, ws_stream, ws_buffer,
          ws_ctx, ws_sresult, ws_cancels, ws_pc

(***************************************************************************)
(* State of a Postgres executor that runs simple queries                   *)
(*   pg_stream   : the messages the server has sent and the executor has   *)
(*                 not read, oldest first                                  *)
(*   pg_is_closed : Executor::is_closed                                    *)
(*   pg_pc       : "idle", "reading" (simple_query_execute is in its       *)
(*                 loop), "returned"                                       *)
(*   pg_ret      : what the last simple_query_execute returned, or <<>>    *)
(*   pg_cb       : the arguments the callback got in the current call      *)
(*   pg_read     : the messages the current call has read                  *)
(*   pg_written  : how often the current call wrote its Query message      *)
(*   pg_cmds     : the calls of simple_query_execute so far                *)
(***************************************************************************)
VARIABLES pg_stream, pg_is_closed, pg_pc, pg_ret, pg_cb, pg_read, pg_written,
          pg_cmds

(***************************************************************************)
(* State of a run of DbError::try_from                                     *)
(*   db_fields   : the fields the server put in the body, each a tag and   *)
(*                 a value                                                 *)
(*   db_from     : the body of the ErrorResponse, a sequence of bytes      *)
(*   db_ret      : what DbError::try_from returned, or <<>>                *)
(***************************************************************************)
VARIABLES db_fields, db_from, db_ret

(***************************************************************************)
(* State of a run of the Postgres value codec (Encode and Decode of tys.rs) *)
(*   ty_ty       : the Rust type of the value                              *)
(*   ty_val      : the value handed to encode                              *)
(*   ty_fbw      : the bytes written to the FilledBufferWriter since it    *)
(*                 was created                                             *)
(*   ty_enc      : what encode returned, or <<>>                           *)
(*   ty_bytes    : the bytes handed to decode                              *)
(*   ty_dec      : what decode returned, or <<>>                           *)
(*   ty_pc       : "new", "encoded", "decoded" (the bytes of encode were   *)
(*                 decoded) or "peer" (bytes of a peer were decoded)       *)
(***************************************************************************)
VARIABLES ty_ty, ty_val, ty_fbw, ty_enc, ty_bytes, ty_dec, ty_pc

(***************************************************************************)
(* State of the calls of the string searches (misc/optimization.rs)        *)
(*   opt_str     : the string, a sequence of UTF-8 bytes                   *)
(*   opt_elem    : the byte searched for                                   *)
(*   opt_memchr  : the feature memchr is active in the build               *)
(*   opt_done    : the functions that were called and have returned        *)
(*   opt_rpos    : what str_rpos1 returned                                 *)
(*   opt_rsplit  : what str_rsplit_once1 returned                          *)
(*   opt_split   : what str_split_once1 returned                           *)
(***************************************************************************)
VARIABLES opt_str, opt_elem, opt_memchr, opt_done, opt_rpos, opt_rsplit,
          opt_split

stVars == <<max_stmts, rs, stmts, stmts_indcs, sb,
            st_op, first_id, n_builder, n_build, n_evicted, n_since_clear,
            ev_since_clear, cb_failed, cleared, live, gone, held, n_ids,
            cb_log, fifo>>

lkVars == <<lk_kind, lk_owner, lk_poisoned, lk_value, lk_waiters, lk_arc,
            lk_pc, lk_obj, lk_last>>

h2Vars == <<h2_guard, sorp, scrp, is_conn_open, h2_method, h2_pc, h2_ret>>

wsVars == <<ws_is_client, ws_no_masking, ws_nc, ws_max_payload_len,
            ws_usize_bits, ws_input, ws_bytes, ws_result, ws_stream,
            ws_buffer, ws_ctx, ws_sresult, ws_cancels, ws_pc>>

pgVars == <<pg_stream, pg_is_closed, pg_pc, pg_ret, pg_cb, pg_read,
            pg_written, pg_cmds>>

dbVars == <<db_fields, db_from, db_ret>>

tyVars == <<ty_ty, ty_val, ty_fbw, ty_enc, ty_bytes, ty_dec, ty_pc>>

optVars == <<opt_str, opt_elem, opt_memchr, opt_done, opt_rpos, opt_rsplit,
             opt_split>>

vars == <<stVars, lkVars, h2Vars, wsVars, pgVars, dbVars, tyVars, optVars>>

\* what an operation of one subsystem leaves alone: the other subsystems
StFrame ==
  UNCHANGED <<lkVars, h2Vars, wsVars, pgVars, dbVars, tyVars, optVars>>

LkFrame ==
  UNCHANGED <<stVars, h2Vars, wsVars, pgVars, dbVars, tyVars, optVars>>

H2Frame ==
  UNCHANGED <<stVars, lkVars, wsVars, pgVars, dbVars, tyVars, optVars>>

WsFrame ==
  UNCHANGED <<stVars, lkVars, h2Vars, pgVars, dbVars, tyVars, optVars>>

PgFrame ==
  UNCHANGED <<stVars, lkVars, h2Vars, wsVars, dbVars, tyVars, optVars>>

DbFrame ==
  UNCHANGED <<stVars, lkVars, h2Vars, wsVars, pgVars, tyVars, optVars>>

TyFrame ==
  UNCHANGED <<stVars, lkVars, h2Vars, wsVars, pgVars, dbVars, optVars>>

OptFrame ==
  UNCHANGED <<stVars, lkVars, h2Vars, wsVars, pgVars, dbVars, tyVars>>

(***************************************************************************)
(* Bounds of the statement-cache model                                     *)
(***************************************************************************)
\* largest max_stmts argument handed to Statements::new
MaxStmtsArg == 4

\* statement ids (64-bit SQL fingerprints) are drawn from 1..NumIds
NumIds == 5

\* calls of Statements::builder in one behaviour
MaxBuilderCalls == 5

Ids == 1..NumIds

\* seeds of the random-state hasher
Seeds == {1, 2}

\* StatementsMisc::new(aux, columns_len, types_len); the executor passes the
\* statement id as aux.
StatementsMisc(aux, columns_len, types_len) ==
  [aux |-> aux, columns_len |-> columns_len, types_len |-> types_len]

\* the shapes (columns_len, types_len) a prepared statement may have: those of
\* the statements of tests::two_statements
StmtShapes == {<<2, 1>>, <<1, 0>>}

\* BlocksDeque::blocks_len
BlocksLen == Len(stmts)

\* Statements::new: max_stmts.max(1), empty deque, empty index map
StatementsNew(arg, seed) ==
  /\ max_stmts = Max(arg, 1)
  /\ rs = seed
  /\ stmts = <<>>
  /\ stmts_indcs = << >>
  /\ sb = 0

\* Statements::get_by_idx: the block at position idx of the deque, if any
GetByIdx(idx) ==
  IF idx >= 0 /\ idx < Len(stmts) THEN Some(stmts[idx + 1]) ELSE None

\* Statements::get_by_stmt_cmd_id: through the index map, then get_by_idx
GetByStmtCmdId(id) ==
  IF id \in DOMAIN stmts_indcs THEN GetByIdx(stmts_indcs[id]) ELSE None

\* to_remove without the lower bound of one
ToRemove_NoMax == max_stmts \div 2

\* to_remove of Statements::builder
ToRemove == Max(max_stmts \div 2, 1)

\* a retain closure that drops the evicted entries and forgets to shift the rest
Retain_NoShift(m, to_remove) ==
  [k \in {j \in DOMAIN m : ~(m[j] < to_remove)} |-> m[k]]

\* the retain closure of Statements::builder: entries below to_remove are
\* dropped, the others are shifted down by to_remove
Retain(m, to_remove) ==
  [k \in {j \in DOMAIN m : ~(m[j] < to_remove)} |-> m[k] - to_remove]

\* the deque after n pop_front calls
PopFront(q, n) == SubSeq(q, Min(n, Len(q)) + 1, Len(q))

\* the aux values of the first n blocks: what the callback is handed
Popped(q, n) == {q[i].aux : i \in 1..Min(n, Len(q))}

StInit ==
  /\ \E arg \in 0..MaxStmtsArg, seed \in Seeds : StatementsNew(arg, seed)
  /\ st_op = "new"
  /\ first_id = 0
  /\ n_builder = 0
  /\ n_build = 0
  /\ n_evicted = 0
  /\ n_since_clear = 0
  /\ ev_since_clear = 0
  /\ cb_failed = FALSE
  /\ cleared = FALSE
  /\ live = << >>
  /\ gone = {}
  /\ held = <<>>
  /\ n_ids = 0
  /\ cb_log = <<>>
  /\ fifo = <<>>

Restrict(f, S) == [k \in S |-> f[k]]

\* a test of the capacity that lets the deque grow one block too far
AtCapacity_Late == BlocksLen > max_stmts

\* the test of Statements::builder: the cache is full
AtCapacity == BlocksLen >= max_stmts

\* the aux values stmt_cb is handed, the newest statement first
Calls_NewestFirst(q, n) ==
  [i \in 1..Min(n, Len(q)) |-> q[Len(q) + 1 - i].aux]

\* the aux values stmt_cb is handed while the first n blocks are popped, in
\* the order of the calls
Calls(q, n) == [i \in 1..Min(n, Len(q)) |-> q[i].aux]

\* a sequence without the first occurrence of x
RECURSIVE RemoveFirst(_, _)
RemoveFirst(q, x) ==
  IF q = <<>> THEN <<>>
  ELSE IF Head(q) = x THEN Tail(q)
  ELSE <<Head(q)>> \o RemoveFirst(Tail(q), x)

\* a sequence without the first occurrence of each element of calls
RECURSIVE SeqWithout(_, _)
SeqWithout(q, calls) ==
  IF calls = <<>> THEN q
  ELSE SeqWithout(RemoveFirst(q, Head(calls)), Tail(calls))

\* The history variables after `n` statements have been popped.
GhostPop(n) ==
  /\ cb_log' = Calls(stmts, n)
  /\ fifo' = SeqWithout(fifo, Calls(stmts, n))
  /\ n_evicted' = n_evicted + Min(n, Len(stmts))
  /\ ev_since_clear' = ev_since_clear + Min(n, Len(stmts))
  /\ live' = Restrict(live, DOMAIN live \ Popped(stmts, n))
  /\ gone' = gone \cup Popped(stmts, n)

\* Statements::builder on a cache miss for `id`, every callback returning Ok.
Builder(id) ==
  /\ sb = 0
  /\ n_builder < MaxBuilderCalls
  /\ id <= n_ids + 1
  /\ n_ids' = Max(n_ids, id)
  /\ GetByStmtCmdId(id) = None
  /\ IF AtCapacity
       THEN /\ stmts' = PopFront(stmts, ToRemove)
            /\ stmts_indcs' = Retain(stmts_indcs, ToRemove)
            /\ GhostPop(ToRemove)
       ELSE /\ UNCHANGED <<stmts, stmts_indcs>>
            /\ cb_log' = <<>>
            /\ UNCHANGED <<n_evicted, ev_since_clear, live, gone, fifo>>
  /\ sb' = id
  /\ st_op' = "builder"
  /\ n_builder' = n_builder + 1
  /\ UNCHANGED <<max_stmts, rs, first_id, n_build, n_since_clear, cb_failed,
                 cleared, held>>
  /\ StFrame

\* Statements::builder when the callback of the k-th popped statement
\* returns an error: `?` leaves the function after k pops, before retain.
BuilderCbErr(id, k) ==
  /\ sb = 0
  /\ n_builder < MaxBuilderCalls
  /\ id <= n_ids + 1
  /\ n_ids' = Max(n_ids, id)
  /\ GetByStmtCmdId(id) = None
  /\ AtCapacity
  /\ k \in 1..ToRemove
  /\ stmts' = PopFront(stmts, k)
  /\ GhostPop(k)
  /\ cb_failed' = TRUE
  /\ st_op' = "builder_err"
  /\ n_builder' = n_builder + 1
  /\ UNCHANGED <<max_stmts, rs, stmts_indcs, sb, first_id, n_build,
                 n_since_clear, cleared, held>>
  /\ StFrame

\* StatementBuilder::build: the new block goes to the back of the deque and
\* the id is mapped to its position, which is returned.
Build(shape, keep) ==
  /\ sb # 0
  /\ LET idx == Len(stmts) IN
       /\ stmts' = Append(stmts, StatementsMisc(sb, shape[1], shape[2]))
       /\ stmts_indcs' =
            [k \in DOMAIN stmts_indcs \cup {sb} |->
               IF k = sb THEN idx ELSE stmts_indcs[k]]
       /\ held' = IF keep THEN <<sb, idx>> ELSE held
  /\ live' = [k \in DOMAIN live \cup {sb} |->
                IF k = sb THEN StatementsMisc(sb, shape[1], shape[2])
                ELSE live[k]]
  /\ gone' = gone \ {sb}
  /\ fifo' = Append(fifo, sb)
  /\ first_id' = IF first_id = 0 THEN sb ELSE first_id
  /\ n_build' = n_build + 1
  /\ n_since_clear' = n_since_clear + 1
  /\ sb' = 0
  /\ st_op' = "build"
  /\ UNCHANGED <<max_stmts, rs, n_builder, n_evicted, ev_since_clear,
                 cb_failed, cleared, n_ids, cb_log>>
  /\ StFrame

\* The StatementBuilder is dropped without build (Parse or Describe failed).
DropBuilder ==
  /\ sb # 0
  /\ sb' = 0
  /\ st_op' = "drop_builder"
  /\ UNCHANGED <<max_stmts, rs, stmts, stmts_indcs, first_id, n_builder,
                 n_build, n_evicted, n_since_clear, ev_since_clear, cb_failed,
                 cleared, live, gone, held, n_ids, cb_log, fifo>>
  /\ StFrame

\* a clear that empties the index map and leaves the blocks in the deque
Clear_KeepBlocks ==
  /\ sb = 0
  /\ st_op # "clear"
  /\ stmts_indcs' = << >>
  /\ gone' = gone \cup DOMAIN live
  /\ live' = << >>
  /\ cleared' = TRUE
  /\ n_since_clear' = 0
  /\ ev_since_clear' = 0
  /\ fifo' = <<>>
  /\ st_op' = "clear"
  /\ UNCHANGED <<max_stmts, rs, stmts, sb, first_id, n_builder, n_build,
                 n_evicted, cb_failed, held, n_ids, cb_log>>
  /\ StFrame

\* Statements::clear
Clear ==
  /\ sb = 0
  /\ st_op # "clear"
  /\ stmts' = <<>>
  /\ stmts_indcs' = << >>
  /\ gone' = gone \cup DOMAIN live
  /\ live' = << >>
  /\ cleared' = TRUE
  /\ n_since_clear' = 0
  /\ ev_since_clear' = 0
  /\ fifo' = <<>>
  /\ st_op' = "clear"
  /\ UNCHANGED <<max_stmts, rs, sb, first_id, n_builder, n_build, n_evicted,
                 cb_failed, held, n_ids, cb_log>>
  /\ StFrame

StNext ==
  \/ \E id \in Ids : Builder(id)
  \/ \E id \in Ids, k \in 1..MaxStmtsArg : BuilderCbErr(id, k)
  \/ \E shape \in StmtShapes, keep \in BOOLEAN : Build(shape, keep)
  \/ DropBuilder
  \/ Clear


(***************************************************************************)
(* The lock abstraction (misc/lock.rs)                                     *)
(***************************************************************************)
\* tasks (threads, for the synchronous locks) that use a lock
NumTasks == 3

\* lock objects built with Lock::new / SyncLock::new
NumLocks == 2

LkTasks == 1..NumTasks

LkCells == 1..NumLocks

\* values a task writes to the resource through its guard
LkValues == {1, 2}

\* the implementations of Lock and SyncLock
AsyncKinds == {"RefCell", "TokioMutex", "EmbassyMutex"}

SyncKinds == {"StdMutex", "ParkingLotMutex"}

\* (**self): the cell behind a task's Arc / Rc handle
Deref(t) == lk_arc[t]

\* Lock::new / SyncLock::new for every lock object, one handle per task
LkInit ==
  /\ lk_kind \in AsyncKinds \cup SyncKinds
  /\ lk_owner = [c \in LkCells |-> 0]
  /\ lk_poisoned = [c \in LkCells |-> FALSE]
  /\ lk_value = [c \in LkCells |-> 0]
  /\ lk_waiters = [c \in LkCells |-> {}]
  /\ lk_arc = [t \in LkTasks |-> ((t - 1) % NumLocks) + 1]
  /\ lk_pc = [t \in LkTasks |-> "idle"]
  /\ lk_obj = [t \in LkTasks |-> ((t - 1) % NumLocks) + 1]
  /\ lk_last = [c \in LkCells |-> 0]

\* Arc::clone / Rc::clone: task u replaces its handle by a clone of t's
LkClone(t, u) ==
  /\ t # u
  /\ lk_pc[u] = "idle"
  /\ lk_arc[u] # lk_arc[t]
  /\ lk_arc' = [lk_arc EXCEPT ![u] = lk_arc[t]]
  /\ lk_obj' = [lk_obj EXCEPT ![u] = lk_obj[t]]
  /\ UNCHANGED <<lk_kind, lk_owner, lk_poisoned, lk_value, lk_waiters, lk_pc,
                 lk_last>>
  /\ LkFrame

\* a task calls lock() on its handle: the future exists and is polled next
LkCall(t) ==
  /\ lk_pc[t] = "idle"
  /\ lk_pc' = [lk_pc EXCEPT ![t] = "locking"]
  /\ UNCHANGED <<lk_kind, lk_owner, lk_poisoned, lk_value, lk_waiters, lk_arc,
                 lk_obj, lk_last>>
  /\ LkFrame

\* a try_borrow_mut that never fails
TryBorrowMut_Always(c) == TRUE

\* RefCell::try_borrow_mut
TryBorrowMut(c) == lk_owner[c] = 0

\* impl Lock for RefCell<T>: one poll of the poll_fn future. The closure
\* ignores its Context: on Pending no waker is stored anywhere.
RefCellPoll(t) ==
  /\ lk_kind = "RefCell"
  /\ lk_pc[t] = "locking"
  /\ \/ /\ TryBorrowMut(Deref(t))
        /\ lk_owner' = [lk_owner EXCEPT ![Deref(t)] = t]
        /\ lk_pc' = [lk_pc EXCEPT ![t] = "holding"]
     \/ /\ ~TryBorrowMut(Deref(t))
        /\ lk_pc' = [lk_pc EXCEPT ![t] = "pending"]
        /\ UNCHANGED lk_owner
  /\ UNCHANGED <<lk_kind, lk_poisoned, lk_value, lk_waiters, lk_arc, lk_obj,
                 lk_last>>
  /\ LkFrame

\* impl Lock for tokio::sync::Mutex / embassy_sync::mutex::Mutex: one poll of
\* the library's lock future, which stores the waker when the mutex is taken
AsyncMutexPoll(t) ==
  /\ lk_kind \in {"TokioMutex", "EmbassyMutex"}
  /\ lk_pc[t] = "locking"
  /\ \/ /\ lk_owner[Deref(t)] = 0
        /\ lk_owner' = [lk_owner EXCEPT ![Deref(t)] = t]
        /\ lk_pc' = [lk_pc EXCEPT ![t] = "holding"]
        /\ UNCHANGED lk_waiters
     \/ /\ lk_owner[Deref(t)] # 0
        /\ lk_waiters' = [lk_waiters EXCEPT ![Deref(t)] = @ \cup {t}]
        /\ lk_pc' = [lk_pc EXCEPT ![t] = "pending"]
        /\ UNCHANGED lk_owner
  /\ UNCHANGED <<lk_kind, lk_poisoned, lk_value, lk_arc, lk_obj, lk_last>>
  /\ LkFrame

\* impl SyncLock for std::sync::Mutex: one turn of the try_lock loop
StdMutexLock(t) ==
  /\ lk_kind = "StdMutex"
  /\ lk_pc[t] = "locking"
  /\ \/ \* Ok(elem) => return elem
        /\ lk_owner[Deref(t)] = 0
        /\ ~lk_poisoned[Deref(t)]
        /\ lk_owner' = [lk_owner EXCEPT ![Deref(t)] = t]
        /\ lk_pc' = [lk_pc EXCEPT ![t] = "holding"]
     \/ \* Err(Poisoned(elem)) => return elem.into_inner()
        /\ lk_owner[Deref(t)] = 0
        /\ lk_poisoned[Deref(t)]
        /\ lk_owner' = [lk_owner EXCEPT ![Deref(t)] = t]
        /\ lk_pc' = [lk_pc EXCEPT ![t] = "holding"]
     \/ \* Err(WouldBlock) => {}
        /\ lk_owner[Deref(t)] # 0
        /\ UNCHANGED <<lk_owner, lk_pc>>
  /\ UNCHANGED <<lk_kind, lk_poisoned, lk_value, lk_waiters, lk_arc, lk_obj,
                 lk_last>>
  /\ LkFrame

\* impl SyncLock for parking_lot::Mutex: lock() returns once the mutex is free
ParkingLotLock(t) ==
  /\ lk_kind = "ParkingLotMutex"
  /\ lk_pc[t] = "locking"
  /\ lk_owner[Deref(t)] = 0
  /\ lk_owner' = [lk_owner EXCEPT ![Deref(t)] = t]
  /\ lk_pc' = [lk_pc EXCEPT ![t] = "holding"]
  /\ UNCHANGED <<lk_kind, lk_poisoned, lk_value, lk_waiters, lk_arc, lk_obj,
                 lk_last>>
  /\ LkFrame

\* DerefMut of the guard: the holder writes the resource
LkWrite(t, v) ==
  /\ lk_pc[t] = "holding"
  /\ lk_value[Deref(t)] # v
  /\ lk_value' = [lk_value EXCEPT ![Deref(t)] = v]
  /\ lk_last' = [lk_last EXCEPT ![lk_obj[t]] = v]
  /\ UNCHANGED <<lk_kind, lk_owner, lk_poisoned, lk_waiters, lk_arc, lk_pc,
                 lk_obj>>
  /\ LkFrame

\* the guard goes out of scope: the cell is released and the mutex wakes the
\* tasks whose waker it stored
LkDropGuard(t) ==
  /\ lk_pc[t] = "holding"
  /\ lk_owner' = [lk_owner EXCEPT ![Deref(t)] = 0]
  /\ lk_waiters' = [lk_waiters EXCEPT ![Deref(t)] = {}]
  /\ lk_pc' = [u \in LkTasks |->
                 IF u = t THEN "idle"
                 ELSE IF u \in lk_waiters[Deref(t)] THEN "locking"
                 ELSE lk_pc[u]]
  /\ UNCHANGED <<lk_kind, lk_poisoned, lk_value, lk_arc, lk_obj, lk_last>>
  /\ LkFrame

\* a thread panics while it holds the guard of a std::sync::Mutex: the guard
\* is dropped by unwinding and the mutex is poisoned
StdPanic(t) ==
  /\ lk_kind = "StdMutex"
  /\ lk_pc[t] = "holding"
  /\ ~lk_poisoned[Deref(t)]
  /\ lk_owner' = [lk_owner EXCEPT ![Deref(t)] = 0]
  /\ lk_poisoned' = [lk_poisoned EXCEPT ![Deref(t)] = TRUE]
  /\ lk_pc' = [lk_pc EXCEPT ![t] = "idle"]
  /\ UNCHANGED <<lk_kind, lk_value, lk_waiters, lk_arc, lk_obj, lk_last>>
  /\ LkFrame

LkNext ==
  \/ \E t, u \in LkTasks : LkClone(t, u)
  \/ \E t \in LkTasks : LkCall(t)
  \/ \E t \in LkTasks : RefCellPoll(t)
  \/ \E t \in LkTasks : AsyncMutexPoll(t)
  \/ \E t \in LkTasks : StdMutexLock(t)
  \/ \E t \in LkTasks : ParkingLotLock(t)
  \/ \E t \in LkTasks, v \in LkValues : LkWrite(t, v)
  \/ \E t \in LkTasks : LkDropGuard(t)
  \/ \E t \in LkTasks : StdPanic(t)

\* Every task that may be polled is polled, every lock call of a thread goes
\* on, and every holder drops its guard.
LkFairness ==
  \A t \in LkTasks :
    /\ WF_lkVars(RefCellPoll(t))
    /\ WF_lkVars(AsyncMutexPoll(t))
    /\ WF_lkVars(StdMutexLock(t))
    /\ WF_lkVars(ParkingLotLock(t))
    /\ WF_lkVars(LkDropGuard(t))

(***************************************************************************)
(* The HTTP/2 server stream (http2/server_stream.rs)                       *)
(***************************************************************************)
\* ServerStream handles of one connection
NumStreams == 2

\* DATA frames a request body may take
MaxBody == 1

H2Handles == 1..NumStreams

\* the stream id of a handle: client-initiated ids are odd
StreamId(s) == 2 * s - 1

H2Ids == {StreamId(s) : s \in H2Handles}

\* the receive window of a new stream, in DATA frames
InitWindow == MaxBody + 1

\* StreamState::recv_eos: the peer has ended its side of the stream
RecvEos(stream_state) == stream_state \in {"HalfClosedRemote", "Closed"}

\* a function without the entry of key k
Without(f, k) == [j \in DOMAIN f \ {k} |-> f[j]]

\* a function with key k set to v
With(f, k, v) == [j \in DOMAIN f \cup {k} |-> IF j = k THEN v ELSE f[j]]

\* the calls of a handle that are complete: another call may start
H2Quiescent ==
  {"new", "recv_ok", "recv_err", "res_ok", "reset_ok", "reset_err"}

\* the positions at which a call awaits a write to the network stream
H2Writing == {"res_writing", "reset_writing", "go_away_writing"}

\* ServerStream::new for every accepted stream: the initial HEADERS created
\* the sorp entry, with END_STREAM or without
H2Init ==
  /\ h2_guard = 0
  /\ sorp \in [H2Ids -> [stream_state : {"Open", "HalfClosedRemote"},
                         windows : {InitWindow}, sb : {0}]]
  /\ scrp = << >>
  /\ is_conn_open = TRUE
  /\ h2_method = [s \in H2Handles |-> IF s % 2 = 1 THEN "GET" ELSE "POST"]
  /\ h2_pc = [s \in H2Handles |-> "new"]
  /\ h2_ret = [s \in H2Handles |-> <<>>]

\* recv_req, process_receipt_loop!: self.hd.lock().await at the head of a turn
RecvReqLock(s) ==
  /\ h2_pc[s] \in H2Quiescent \cup {"recv_loop"}
  /\ h2_guard = 0
  /\ h2_guard' = s
  /\ h2_pc' = [h2_pc EXCEPT ![s] = "recv_locked"]
  /\ UNCHANGED <<sorp, scrp, is_conn_open, h2_method, h2_ret>>
  /\ H2Frame

\* the condition of recv_req without the END_STREAM test
RecvReqReady_AnyEntry(s) == StreamId(s) \in DOMAIN sorp

\* recv_req: sorp.get(&stream_id).map_or(false, |el| el.stream_state.recv_eos())
RecvReqReady(s) ==
  /\ StreamId(s) \in DOMAIN sorp
  /\ RecvEos(sorp[StreamId(s)].stream_state)

\* a removal that takes the entries of the other streams along
SorpRemove_All(s) == [id \in {} |-> sorp[id]]

\* recv_req: hdpm.hb.sorp.remove(&self.stream_id)
SorpRemove(s) == Without(sorp, StreamId(s))

\* recv_req, the body of the loop under the guard: at END_STREAM the entry
\* moves from sorp to scrp and (sb, method) is returned, which drops the guard
RecvReqCheck(s) ==
  /\ h2_pc[s] = "recv_locked"
  /\ h2_guard = s
  /\ \/ /\ RecvReqReady(s)
        /\ sorp' = SorpRemove(s)
        /\ scrp' = With(scrp, StreamId(s),
                        [stream_state |-> sorp[StreamId(s)].stream_state,
                         windows |-> sorp[StreamId(s)].windows])
        /\ h2_ret' = [h2_ret EXCEPT ![s] = <<sorp[StreamId(s)].sb, h2_method[s]>>]
        /\ h2_pc' = [h2_pc EXCEPT ![s] = "recv_ok"]
        /\ h2_guard' = 0
     \/ /\ ~RecvReqReady(s)
        /\ h2_pc' = [h2_pc EXCEPT ![s] = "recv_receipt"]
        /\ UNCHANGED <<sorp, scrp, h2_ret, h2_guard>>
  /\ UNCHANGED <<is_conn_open, h2_method>>
  /\ H2Frame

\* the frames of the peer that process_receipt takes in
H2Frames == {"DATA", "END_STREAM", "RST_STREAM"}

\* a receipt that opens an entry anew for a frame of a stream without one
SorpAfter_Reopen(f, id) ==
  IF id \notin DOMAIN sorp
    THEN With(sorp, id, [stream_state |-> "HalfClosedRemote",
                         windows |-> InitWindow, sb |-> 0])
  ELSE IF f = "DATA" THEN
    IF sorp[id].stream_state = "Open" /\ sorp[id].sb < MaxBody
      THEN [sorp EXCEPT ![id].sb = @ + 1, ![id].windows = @ - 1]
      ELSE sorp
  ELSE IF f = "END_STREAM" THEN
    IF sorp[id].stream_state = "Open"
      THEN [sorp EXCEPT ![id].stream_state = "HalfClosedRemote"]
      ELSE sorp
  ELSE Without(sorp, id)

\* the connection state once frame f for stream id has been processed
SorpAfter(f, id) ==
  IF id \notin DOMAIN sorp THEN sorp
  ELSE IF f = "DATA" THEN
    IF sorp[id].stream_state = "Open" /\ sorp[id].sb < MaxBody
      THEN [sorp EXCEPT ![id].sb = @ + 1, ![id].windows = @ - 1]
      ELSE sorp
  ELSE IF f = "END_STREAM" THEN
    IF sorp[id].stream_state = "Open"
      THEN [sorp EXCEPT ![id].stream_state = "HalfClosedRemote"]
      ELSE sorp
  ELSE Without(sorp, id)

ScrpAfter(f, id) ==
  IF f = "RST_STREAM" /\ id \in DOMAIN scrp THEN Without(scrp, id) ELSE scrp

\* process_receipt_loop!: no request yet, one frame of the peer is processed
\* and the guard is dropped at the end of the turn
ProcessReceipt(s, f, id) ==
  /\ h2_pc[s] = "recv_receipt"
  /\ h2_guard = s
  /\ is_conn_open
  /\ sorp' = SorpAfter(f, id)
  /\ scrp' = ScrpAfter(f, id)
  /\ h2_pc' = [h2_pc EXCEPT ![s] = "recv_loop"]
  /\ h2_guard' = 0
  /\ UNCHANGED <<is_conn_open, h2_method, h2_ret>>
  /\ H2Frame

\* process_receipt_loop!: the connection is closed or the read fails, the
\* error leaves recv_req
RecvReqErr(s) ==
  /\ h2_pc[s] = "recv_receipt"
  /\ h2_guard = s
  /\ h2_pc' = [h2_pc EXCEPT ![s] = "recv_err"]
  /\ h2_guard' = 0
  /\ UNCHANGED <<sorp, scrp, is_conn_open, h2_method, h2_ret>>
  /\ H2Frame

\* send_res, send_msg: HEADERS and DATA with END_STREAM are written
SendResWrite(s) ==
  /\ h2_pc[s] = "recv_ok"
  /\ is_conn_open
  /\ h2_pc' = [h2_pc EXCEPT ![s] = "res_writing"]
  /\ UNCHANGED <<h2_guard, sorp, scrp, is_conn_open, h2_method, h2_ret>>
  /\ H2Frame

\* a closure that leaves the entry in place
ScrpRemove_Keep(s) == scrp

\* send_res, the closure: hdpm.hb.scrp.remove(&self.stream_id)
ScrpRemove(s) == Without(scrp, StreamId(s))

\* send_res, the closure handed to send_msg: hdpm.hb.scrp.remove(&stream_id),
\* under the guard, once the message is out
SendResRecord(s) ==
  /\ h2_pc[s] = "res_writing"
  /\ h2_guard = 0
  /\ scrp' = ScrpRemove(s)
  /\ h2_pc' = [h2_pc EXCEPT ![s] = "res_ok"]
  /\ UNCHANGED <<h2_guard, sorp, is_conn_open, h2_method, h2_ret>>
  /\ H2Frame

\* send_reset: let mut guard = self.hd.lock().await
SendResetLock(s) ==
  /\ h2_pc[s] \in H2Quiescent
  /\ h2_guard = 0
  /\ h2_guard' = s
  /\ h2_pc' = [h2_pc EXCEPT ![s] = "reset_locked"]
  /\ UNCHANGED <<sorp, scrp, is_conn_open, h2_method, h2_ret>>
  /\ H2Frame

\* send_reset: send_reset_stream(error_code, &mut hdpm.hb.sorp, stream_id,
\* hdpm.stream) is called and awaited with the guard alive; it is handed sorp
\* only
SendResetStart(s) ==
  /\ h2_pc[s] = "reset_locked"
  /\ h2_guard = s
  /\ sorp' = Without(sorp, StreamId(s))
  /\ h2_pc' = [h2_pc EXCEPT ![s] = "reset_writing"]
  /\ UNCHANGED <<h2_guard, scrp, is_conn_open, h2_method, h2_ret>>
  /\ H2Frame

\* send_reset: the write of RST_STREAM completes, `?`, Ok(()); the guard is
\* dropped as the function returns
SendResetDone(s, ok) ==
  /\ h2_pc[s] = "reset_writing"
  /\ h2_guard = s
  /\ h2_guard' = 0
  /\ h2_pc' = [h2_pc EXCEPT ![s] = IF ok THEN "reset_ok" ELSE "reset_err"]
  /\ UNCHANGED <<sorp, scrp, is_conn_open, h2_method, h2_ret>>
  /\ H2Frame

\* send_go_away: let mut guard = self.hd.lock().await
SendGoAwayLock(s) ==
  /\ h2_pc[s] \in H2Quiescent
  /\ h2_guard = 0
  /\ h2_guard' = s
  /\ h2_pc' = [h2_pc EXCEPT ![s] = "go_away_locked"]
  /\ UNCHANGED <<sorp, scrp, is_conn_open, h2_method, h2_ret>>
  /\ H2Frame

\* send_go_away: send_go_away(error_code, hdpm.is_conn_open, last_stream_id,
\* hdpm.stream) is called and awaited with the guard alive
SendGoAwayStart(s) ==
  /\ h2_pc[s] = "go_away_locked"
  /\ h2_guard = s
  /\ is_conn_open' = FALSE
  /\ h2_pc' = [h2_pc EXCEPT ![s] = "go_away_writing"]
  /\ UNCHANGED <<h2_guard, sorp, scrp, h2_method, h2_ret>>
  /\ H2Frame

\* send_go_away: the write of GOAWAY is over; the handle was consumed
SendGoAwayDone(s) ==
  /\ h2_pc[s] = "go_away_writing"
  /\ h2_guard = s
  /\ h2_guard' = 0
  /\ h2_pc' = [h2_pc EXCEPT ![s] = "consumed"]
  /\ UNCHANGED <<sorp, scrp, is_conn_open, h2_method, h2_ret>>
  /\ H2Frame

H2Next ==
  \/ \E s \in H2Handles : RecvReqLock(s)
  \/ \E s \in H2Handles : RecvReqCheck(s)
  \/ \E s \in H2Handles, f \in H2Frames, id \in H2Ids : ProcessReceipt(s, f, id)
  \/ \E s \in H2Handles : RecvReqErr(s)
  \/ \E s \in H2Handles : SendResWrite(s)
  \/ \E s \in H2Handles : SendResRecord(s)
  \/ \E s \in H2Handles : SendResetLock(s)
  \/ \E s \in H2Handles : SendResetStart(s)
  \/ \E s \in H2Handles, ok \in BOOLEAN : SendResetDone(s, ok)
  \/ \E s \in H2Handles : SendGoAwayLock(s)
  \/ \E s \in H2Handles : SendGoAwayStart(s)
  \/ \E s \in H2Handles : SendGoAwayDone(s)

(***************************************************************************)
(* The WebSocket frame-header reader (web_socket/read_frame_info.rs)       *)
(*                                                                         *)
(* Lengths are 64-bit: a length is kept as its eight big-endian bytes and  *)
(* compared byte by byte.                                                  *)
(***************************************************************************)
\* how often the future of from_stream is dropped
MaxCancels == 2

FIN_MASK == 128

RSV1_MASK == 64

RSV2_MASK == 32

RSV3_MASK == 16

OP_CODE_MASK == 15

MASK_MASK == 128

PAYLOAD_MASK == 127

MAX_CONTROL_PAYLOAD_LEN == 125

\* a & mask, for a byte a and a mask that is one bit
BitAnd(a, mask) == ((a \div mask) % 2) * mask

\* a & mask, for a mask 2^k - 1
LowBits(a, mask) == a % (mask + 1)

\* crate::Result
Ok(v) == [ok |-> TRUE, err |-> "", val |-> v]

Err(e) == [ok |-> FALSE, err |-> e, val |-> <<>>]

\* the u64 (usize) of a number below 256
U64(n) == <<0, 0, 0, 0, 0, 0, 0, n>>

\* the two bytes taken least significant first
U16FromLe(a, b) == <<0, 0, 0, 0, 0, 0, b, a>>

\* u16::from_be_bytes([a, b]).into()
U16FromBe(a, b) == <<0, 0, 0, 0, 0, 0, a, b>>

\* usize::MAX on a target of the given width
UsizeMax(bits) ==
  IF bits = 64 THEN <<255, 255, 255, 255, 255, 255, 255, 255>>
  ELSE <<0, 0, 0, 0, 255, 255, 255, 255>>

\* x < y for two lengths
RECURSIVE LtFrom(_, _, _)
LtFrom(x, y, i) ==
  IF i > 8 THEN FALSE
  ELSE IF x[i] # y[i] THEN x[i] < y[i]
  ELSE LtFrom(x, y, i + 1)

Lt(x, y) == LtFrom(x, y, 1)

Ge(x, y) == ~Lt(x, y)

Gt(x, y) == Lt(y, x)

\* u64 -> usize, try_into: fails when the value does not fit the target
TryIntoUsize(x, bits) ==
  IF Gt(x, UsizeMax(bits)) THEN Err("TryFromIntError") ELSE Ok(x)

\* the rest of a byte slice after its first n bytes
Rest(bytes, n) == SubSeq(bytes, n + 1, Len(bytes))

\* misc::op_code: the opcode of the first byte
OpCodeOf(a) ==
  LET n == LowBits(a, OP_CODE_MASK) IN
    CASE n = 0 -> Ok("Continuation")
      [] n = 1 -> Ok("Text")
      [] n = 2 -> Ok("Binary")
      [] n = 8 -> Ok("Close")
      [] n = 9 -> Ok("Ping")
      [] n = 10 -> Ok("Pong")
      [] OTHER -> Err("InvalidOpCodeByte")

\* OpCode::is_control
IsControl(op_code) == op_code \in {"Close", "Ping", "Pong"}

\* misc::has_masked_frame
HasMaskedFrame(b) == BitAnd(b, MASK_MASK) # 0

\* the negotiated compressions: the no-op one, one whose rsv1() is zero and
\* permessage-deflate, whose rsv1() is the RSV1 bit
NcKinds ==
  {[is_noop |-> TRUE, rsv1 |-> 0], [is_noop |-> FALSE, rsv1 |-> 0],
   [is_noop |-> FALSE, rsv1 |-> RSV1_MASK]}

\* a reading of the first two bytes that looks at the opcode first
ManageFirstTwoBytes_OpCodeFirst(a, b, nc) ==
  LET rsv1 == BitAnd(a, RSV1_MASK)
      rsv2 == BitAnd(a, RSV2_MASK)
      rsv3 == BitAnd(a, RSV3_MASK)
      op_code == OpCodeOf(a)
  IN
    IF ~op_code.ok THEN op_code
    ELSE IF rsv2 # 0 \/ rsv3 # 0 THEN Err("InvalidCompressionHeaderParameter")
    ELSE IF ~nc.is_noop /\ nc.rsv1 = 0 /\ rsv1 # 0
      THEN Err("InvalidCompressionHeaderParameter")
    ELSE Ok([fin |-> BitAnd(a, FIN_MASK) # 0,
             length_code |-> LowBits(b, PAYLOAD_MASK),
             masked |-> HasMaskedFrame(b),
             op_code |-> op_code.val,
             should_decompress |-> ~nc.is_noop /\ nc.rsv1 # 0 /\ rsv1 # 0])

\* ReadFrameInfo::manage_first_two_bytes
ManageFirstTwoBytes(a, b, nc) ==
  LET rsv1 == BitAnd(a, RSV1_MASK)
      rsv2 == BitAnd(a, RSV2_MASK)
      rsv3 == BitAnd(a, RSV3_MASK)
      fin == BitAnd(a, FIN_MASK) # 0
      length_code == LowBits(b, PAYLOAD_MASK)
      masked == HasMaskedFrame(b)
      op_code == OpCodeOf(a)
  IN
    IF rsv2 # 0 \/ rsv3 # 0 THEN Err("InvalidCompressionHeaderParameter")
    ELSE IF ~nc.is_noop /\ nc.rsv1 = 0 /\ rsv1 # 0
      THEN Err("InvalidCompressionHeaderParameter")
    ELSE IF ~op_code.ok THEN op_code
    ELSE Ok([fin |-> fin, length_code |-> length_code, masked |-> masked,
             op_code |-> op_code.val,
             should_decompress |->
               IF nc.is_noop THEN FALSE
               ELSE IF nc.rsv1 = 0 THEN FALSE
               ELSE rsv1 # 0])

\* a manage_mask that asks for a mask whatever was negotiated
ManageMask_IgnoreNoMasking(is_client, masked, no_masking) ==
  IF is_client THEN Ok(FALSE)
  ELSE IF ~masked THEN Err("InvalidMaskBit")
  ELSE Ok(TRUE)

\* ReadFrameInfo::manage_mask
ManageMask(is_client, masked, no_masking) ==
  IF is_client THEN Ok(FALSE)
  ELSE IF no_masking THEN
    IF masked THEN Err("InvalidMaskBit") ELSE Ok(FALSE)
  ELSE
    IF ~masked THEN Err("InvalidMaskBit") ELSE Ok(TRUE)

\* a manage_final_params that lets a payload of max_payload_len bytes pass
ManageFinalParams_AllowEqual(fin, op_code, max_payload_len, payload_len) ==
  IF IsControl(op_code) /\ ~fin
    THEN Err("UnexpectedFragmentedControlFrame")
  ELSE IF op_code = "Ping" /\ Gt(payload_len, U64(MAX_CONTROL_PAYLOAD_LEN))
    THEN Err("VeryLargeControlFrame")
  ELSE IF Gt(payload_len, max_payload_len)
    THEN Err("VeryLargePayload")
  ELSE Ok(<<>>)

\* ReadFrameInfo::manage_final_params
ManageFinalParams(fin, op_code, max_payload_len, payload_len) ==
  IF IsControl(op_code) /\ ~fin
    THEN Err("UnexpectedFragmentedControlFrame")
  ELSE IF op_code = "Ping" /\ Gt(payload_len, U64(MAX_CONTROL_PAYLOAD_LEN))
    THEN Err("VeryLargeControlFrame")
  ELSE IF Ge(payload_len, max_payload_len)
    THEN Err("VeryLargePayload")
  ELSE Ok(<<>>)

\* the struct ReadFrameInfo
ReadFrameInfo(fin, header_len, mask, op_code, payload_len, should_decompress) ==
  [fin |-> fin, header_len |-> header_len, mask |-> mask, op_code |-> op_code,
   payload_len |-> payload_len, should_decompress |-> should_decompress]

\* from_bytes, the match on length_code: the result holds (header_len,
\* payload_len), `rest` is the cursor afterwards
BytesLen(length_code, bytes, bits) ==
  IF length_code = 126 THEN
    IF Len(bytes) < 2
      THEN [res |-> Err("UnexpectedBufferState"), rest |-> bytes]
      ELSE [res |-> Ok(<<4, U16FromBe(bytes[1], bytes[2])>>),
            rest |-> Rest(bytes, 2)]
  ELSE IF length_code = 127 THEN
    IF Len(bytes) < 8
      THEN [res |-> Err("UnexpectedBufferState"), rest |-> bytes]
      ELSE LET n == TryIntoUsize(SubSeq(bytes, 1, 8), bits) IN
             [res |-> IF n.ok THEN Ok(<<10, n.val>>) ELSE n,
              rest |-> Rest(bytes, 8)]
  ELSE [res |-> Ok(<<2, U64(length_code)>>), rest |-> bytes]

\* from_bytes, from the call of manage_mask to the end
BytesMask(t, hl, bytes, max_payload_len, no_masking, is_client) ==
  LET m == ManageMask(is_client, t.masked, no_masking) IN
    IF ~m.ok THEN [res |-> m, rest |-> bytes]
    ELSE IF m.val /\ Len(bytes) < 4
      THEN [res |-> Err("UnexpectedBufferState"), rest |-> bytes]
    ELSE
      LET rest == IF m.val THEN Rest(bytes, 4) ELSE bytes
          header_len == IF m.val THEN (hl[1] + 4) % 256 ELSE hl[1]
          mask == IF m.val THEN Some(SubSeq(bytes, 1, 4)) ELSE None
          f == ManageFinalParams(t.fin, t.op_code, max_payload_len, hl[2])
      IN
        [res |-> IF ~f.ok THEN f
                 ELSE Ok(ReadFrameInfo(t.fin, header_len, mask, t.op_code,
                                       hl[2], t.should_decompress)),
         rest |-> rest]

\* ReadFrameInfo::from_bytes: the result and the caller's cursor afterwards
FromBytes(bytes, max_payload_len, nc, no_masking, is_client, bits) ==
  IF Len(bytes) < 2
    THEN [res |-> Err("UnexpectedBufferState"), rest |-> bytes]
  ELSE
    LET t == ManageFirstTwoBytes(bytes[1], bytes[2], nc) IN
      IF ~t.ok THEN [res |-> t, rest |-> Rest(bytes, 2)]
      ELSE
        LET l == BytesLen(t.val.length_code, Rest(bytes, 2), bits) IN
          IF ~l.res.ok THEN l
          ELSE BytesMask(t.val, l.res.val, l.rest, max_payload_len,
                         no_masking, is_client)

\* the bytes a peer may send: first bytes over FIN, the three reserved bits
\* and the opcodes (3 is not an opcode), ...
WsFirstBytes ==
  {fin + rsv + op : fin \in {0, FIN_MASK},
                    rsv \in {0, RSV1_MASK, RSV2_MASK, RSV3_MASK},
                    op \in {1, 3, 8, 9, 10}}

\* ... the length code with its extended length: 0, 5, 125, 126 (two bytes),
\* 65536 and 2^63 (eight bytes), ...
WsLenBytes ==
  {<<0>>, <<5>>, <<125>>, <<126, 0, 126>>,
   <<127, 0, 0, 0, 0, 0, 1, 0, 0>>, <<127, 128, 0, 0, 0, 0, 0, 0, 0>>}

\* ... the masking key of a frame that has the mask bit
WsMaskKey == <<1, 2, 3, 4>>

\* a whole frame header
WsHeader(a, l, masked) ==
  IF masked THEN <<a, l[1] + MASK_MASK>> \o Rest(l, 1) \o WsMaskKey
  ELSE <<a>> \o l

\* what arrives: the header and a byte of payload, or the header without its
\* last byte
WsArrivals(h) == {h \o <<7>>, SubSeq(h, 1, Len(h) - 1)}

WsInit ==
  /\ ws_is_client \in BOOLEAN
  /\ ws_no_masking \in BOOLEAN
  /\ ws_nc \in NcKinds
  /\ ws_usize_bits \in {32, 64}
  /\ ws_max_payload_len \in
       IF ws_usize_bits = 64 THEN {U64(0), U64(126), UsizeMax(64)}
       ELSE {UsizeMax(32)}
  /\ \E a \in WsFirstBytes, l \in WsLenBytes, masked \in BOOLEAN :
       ws_input \in WsArrivals(WsHeader(a, l, masked))
  /\ ws_bytes = ws_input
  /\ ws_result = <<>>
  /\ ws_stream = ws_input
  /\ ws_buffer = <<>>
  /\ ws_ctx = <<>>
  /\ ws_sresult = <<>>
  /\ ws_cancels = 0
  /\ ws_pc = "start"

WsParams ==
  <<ws_is_client, ws_no_masking, ws_nc, ws_max_payload_len, ws_usize_bits,
    ws_input>>

\* a call of from_bytes on the input
WsFromBytes ==
  /\ ws_pc = "start"
  /\ LET r == FromBytes(ws_bytes, ws_max_payload_len, ws_nc, ws_no_masking,
                        ws_is_client, ws_usize_bits)
     IN /\ ws_result' = r.res
        /\ ws_bytes' = r.rest
  /\ ws_pc' = "bytes_done"
  /\ UNCHANGED <<WsParams, ws_stream, ws_buffer, ws_ctx, ws_sresult,
                 ws_cancels>>
  /\ WsFrame

\* misc::_read_until::<n>(buffer, read, k, stream): the numbers of bytes it
\* may take from the stream before it returns the window; none when the
\* stream ends before the read counter has reached k + n
ReadUntil(n, k) ==
  IF Len(ws_buffer) >= k + n THEN {0}
  ELSE IF Len(ws_buffer) + Len(ws_stream) < k + n THEN {}
  ELSE {k + n - Len(ws_buffer), Len(ws_stream)}

\* the stream delivers its next r bytes into the buffer
WsRead(r) ==
  /\ ws_buffer' = ws_buffer \o SubSeq(ws_stream, 1, r)
  /\ ws_stream' = Rest(ws_stream, r)

\* the window _read_until returns: the n bytes of the buffer from offset k
Window(buffer, n, k) == SubSeq(buffer, k + 1, k + n)

\* from_stream's return
WsStreamReturn(res) ==
  /\ ws_sresult' = res
  /\ ws_ctx' = <<>>
  /\ ws_pc' = "stream_done"

\* from_stream's return on the end of the stream
WsStreamEof ==
  /\ WsRead(Len(ws_stream))
  /\ WsStreamReturn(Err("UnexpectedStreamReadEOF"))

\* from_stream, lines 109 and 110
StreamFinal(t, header_len, mask, payload_len, max_payload_len) ==
  LET f == ManageFinalParams(t.fin, t.op_code, max_payload_len, payload_len)
  IN IF ~f.ok THEN f
     ELSE Ok(ReadFrameInfo(t.fin, header_len, mask, t.op_code, payload_len,
                           t.should_decompress))

\* from_stream up to the match on length_code
WsStreamFirstTwo ==
  /\ ws_pc = "bytes_done"
  /\ IF ReadUntil(2, 0) = {} THEN WsStreamEof
     ELSE \E r \in ReadUntil(2, 0) :
       /\ WsRead(r)
       /\ LET w == Window(ws_buffer', 2, 0)
              t == ManageFirstTwoBytes(w[1], w[2], ws_nc)
          IN IF ~t.ok THEN WsStreamReturn(t)
             ELSE /\ ws_ctx' = <<t.val>>
                  /\ ws_pc' = "s_len"
                  /\ UNCHANGED ws_sresult
  /\ UNCHANGED <<WsParams, ws_bytes, ws_result, ws_cancels>>
  /\ WsFrame

\* a match on length_code that takes the extended length from offset 0
StreamLen_AtStart(buffer, length_code, bits) ==
  IF length_code = 126
    THEN LET w == Window(buffer, 2, 0) IN Ok(<<4, U16FromBe(w[1], w[2])>>)
  ELSE IF length_code = 127
    THEN LET n == TryIntoUsize(Window(buffer, 8, 0), bits) IN
           IF n.ok THEN Ok(<<10, n.val>>) ELSE n
  ELSE Ok(<<2, U64(length_code)>>)

\* from_stream, the match on length_code: (header_len, payload_len)
StreamLen(buffer, length_code, bits) ==
  IF length_code = 126
    THEN LET w == Window(buffer, 2, 2) IN Ok(<<4, U16FromBe(w[1], w[2])>>)
  ELSE IF length_code = 127
    THEN LET n == TryIntoUsize(Window(buffer, 8, 2), bits) IN
           IF n.ok THEN Ok(<<10, n.val>>) ELSE n
  ELSE Ok(<<2, U64(length_code)>>)

\* the bytes the match on length_code reads
LenBytes(length_code) ==
  IF length_code = 126 THEN 2 ELSE IF length_code = 127 THEN 8 ELSE 0

\* from_stream from the match on length_code to the read of the mask
WsStreamLen ==
  /\ ws_pc = "s_len"
  /\ LET t == ws_ctx[1]
         n == LenBytes(t.length_code)
     IN IF ReadUntil(n, 2) = {} THEN WsStreamEof
        ELSE \E r \in ReadUntil(n, 2) :
          /\ WsRead(r)
          /\ LET l == StreamLen(ws_buffer', t.length_code, ws_usize_bits)
                 m == ManageMask(ws_is_client, t.masked, ws_no_masking)
             IN IF ~l.ok THEN WsStreamReturn(l)
                ELSE IF ~m.ok THEN WsStreamReturn(m)
                ELSE IF m.val
                  THEN /\ ws_ctx' = <<t, l.val>>
                       /\ ws_pc' = "s_mask"
                       /\ UNCHANGED ws_sresult
                ELSE WsStreamReturn(StreamFinal(t, l.val[1], None, l.val[2],
                                                ws_max_payload_len))
  /\ UNCHANGED <<WsParams, ws_bytes, ws_result, ws_cancels>>
  /\ WsFrame

\* from_stream from the read of the mask to the end
WsStreamMask ==
  /\ ws_pc = "s_mask"
  /\ LET t == ws_ctx[1]
         hl == ws_ctx[2]
     IN IF ReadUntil(4, hl[1]) = {} THEN WsStreamEof
        ELSE \E r \in ReadUntil(4, hl[1]) :
          /\ WsRead(r)
          /\ WsStreamReturn(StreamFinal(t, (hl[1] + 4) % 256,
                                        Some(Window(ws_buffer', 4, hl[1])),
                                        hl[2], ws_max_payload_len))
  /\ UNCHANGED <<WsParams, ws_bytes, ws_result, ws_cancels>>
  /\ WsFrame

\* ReadFrameInfo::from_stream, polled to its end without interruption, on a
\* network buffer that is empty and a stream that delivers `bytes` and ends
FromStream(bytes, max_payload_len, nc, no_masking, is_client, bits) ==
  IF Len(bytes) < 2 THEN Err("UnexpectedStreamReadEOF")
  ELSE
    LET t == ManageFirstTwoBytes(bytes[1], bytes[2], nc) IN
      IF ~t.ok THEN t
      ELSE IF Len(bytes) < 2 + LenBytes(t.val.length_code)
        THEN Err("UnexpectedStreamReadEOF")
      ELSE
        LET l == StreamLen(bytes, t.val.length_code, bits)
            m == ManageMask(is_client, t.val.masked, no_masking)
        IN IF ~l.ok THEN l
           ELSE IF ~m.ok THEN m
           ELSE IF ~m.val
             THEN StreamFinal(t.val, l.val[1], None, l.val[2], max_payload_len)
           ELSE IF Len(bytes) < l.val[1] + 4
             THEN Err("UnexpectedStreamReadEOF")
           ELSE StreamFinal(t.val, (l.val[1] + 4) % 256,
                            Some(Window(bytes, 4, l.val[1])), l.val[2],
                            max_payload_len)

\* a drop of the future that loses the read counter
WsStreamCancel_LoseRead ==
  /\ ws_pc \in {"bytes_done", "s_len", "s_mask"}
  /\ ws_cancels < MaxCancels
  /\ ws_cancels' = ws_cancels + 1
  /\ ws_buffer' = <<>>
  /\ ws_ctx' = <<>>
  /\ ws_pc' = "bytes_done"
  /\ UNCHANGED <<WsParams, ws_bytes, ws_result, ws_sresult, ws_stream>>
  /\ WsFrame

\* the future of from_stream is dropped at a suspension point, the read of
\* the stream inside _read_until, which may have delivered another byte; the
\* buffer and the read counter are the caller's and stay, the locals go.
\* from_stream is then called again.
WsStreamCancel ==
  /\ ws_pc \in {"bytes_done", "s_len", "s_mask"}
  /\ ws_cancels < MaxCancels
  /\ ws_cancels' = ws_cancels + 1
  /\ \E r \in {0, Min(1, Len(ws_stream))} : WsRead(r)
  /\ ws_ctx' = <<>>
  /\ ws_pc' = "bytes_done"
  /\ UNCHANGED <<WsParams, ws_bytes, ws_result, ws_sresult>>
  /\ WsFrame

WsNext ==
  \/ WsFromBytes
  \/ WsStreamFirstTwo
  \/ WsStreamLen
  \/ WsStreamMask

WsCancelNext ==
  \/ WsFromBytes
  \/ WsStreamFirstTwo
  \/ WsStreamLen
  \/ WsStreamMask
  \/ WsStreamCancel

(***************************************************************************)
(* The simple query of the Postgres executor                               *)
(* (database/client/postgres/executor/simple_query.rs)                     *)
(***************************************************************************)
\* the messages a server has sent at most, the calls of simple_query_execute
MaxMsgs == 4

MaxCmds == 2

\* a message of the server: its type and, for CommandComplete, the number of
\* affected rows
Msg(ty, n) == [ty |-> ty, n |-> n]

PgMsgs ==
  {Msg("CommandComplete", 1), Msg("CommandComplete", 2),
   Msg("EmptyQueryResponse", 0), Msg("ReadyForQuery", 0),
   Msg("ErrorResponse", 0), Msg("DataRow", 0), Msg("RowDescription", 0)}

\* Message::tag: the first byte of the message, which names its type
MsgTag(msg) ==
  CASE msg.ty = "CommandComplete" -> "C"
    [] msg.ty = "EmptyQueryResponse" -> "I"
    [] msg.ty = "ReadyForQuery" -> "Z"
    [] msg.ty = "ErrorResponse" -> "E"
    [] msg.ty = "DataRow" -> "D"
    [] msg.ty = "RowDescription" -> "T"

\* crate::Error::UnexpectedDatabaseMessage { received }
UnexpectedDatabaseMessage(received) ==
  [ok |-> FALSE, err |-> "UnexpectedDatabaseMessage", val |-> <<received>>]

\* the sequences over S of length n, of length up to n
RECURSIVE SeqsOfLen(_, _)
SeqsOfLen(S, n) ==
  IF n = 0 THEN {<<>>}
  ELSE {<<x>> \o q : x \in S, q \in SeqsOfLen(S, n - 1)}

SeqsUpTo(S, n) == UNION {SeqsOfLen(S, i) : i \in 0..n}

PgInit ==
  /\ pg_stream \in SeqsUpTo(PgMsgs, MaxMsgs)
  /\ pg_is_closed = FALSE
  /\ pg_pc = "idle"
  /\ pg_ret = <<>>
  /\ pg_cb = <<>>
  /\ pg_read = <<>>
  /\ pg_written = 0
  /\ pg_cmds = 0

\* Executor::fetch_msg_from_stream: the next message of the stream. The end
\* of the stream is an error and marks the executor closed; an ErrorResponse
\* is parsed and returned as the error it carries.
FetchMsgFromStream(stream, is_closed) ==
  IF stream = <<>>
    THEN [res |-> Err("UnexpectedStreamReadEOF"), stream |-> stream,
          is_closed |-> TRUE]
  ELSE IF Head(stream).ty = "ErrorResponse"
    THEN [res |-> Err("DbError"), stream |-> Tail(stream),
          is_closed |-> is_closed]
  ELSE [res |-> Ok(Head(stream)), stream |-> Tail(stream),
        is_closed |-> is_closed]

\* simple_query_execute's return
SqReturn(res) ==
  /\ pg_ret' = res
  /\ pg_pc' = "returned"

\* simple_query_execute up to its loop: the buffers are cleared and the Query
\* message is written; the write may fail
SqWrite ==
  /\ pg_pc \in {"idle", "returned"}
  /\ pg_cmds < MaxCmds
  /\ pg_cmds' = pg_cmds + 1
  /\ pg_cb' = <<>>
  /\ pg_read' = <<>>
  /\ \E written \in BOOLEAN :
       IF written
         THEN /\ pg_written' = 1
              /\ pg_pc' = "reading"
              /\ pg_ret' = <<>>
         ELSE /\ pg_written' = 0
              /\ SqReturn(Err("Io"))
  /\ UNCHANGED <<pg_stream, pg_is_closed>>
  /\ PgFrame

\* a match that takes EmptyQueryResponse for the end of the command
SqMatch_EmptyEnds(msg) ==
  CASE msg.ty = "CommandComplete" -> [cb |-> <<msg.n>>, ret |-> <<>>]
    [] msg.ty = "EmptyQueryResponse" -> [cb |-> <<>>, ret |-> <<Ok(<<>>)>>]
    [] msg.ty = "ReadyForQuery" -> [cb |-> <<>>, ret |-> <<Ok(<<>>)>>]
    [] OTHER ->
         [cb |-> <<>>, ret |-> <<UnexpectedDatabaseMessage(MsgTag(msg))>>]

\* a match that passes over the messages it does not expect
SqMatch_SkipOthers(msg) ==
  CASE msg.ty = "CommandComplete" -> [cb |-> <<msg.n>>, ret |-> <<>>]
    [] msg.ty = "EmptyQueryResponse" -> [cb |-> <<0>>, ret |-> <<>>]
    [] msg.ty = "ReadyForQuery" -> [cb |-> <<>>, ret |-> <<Ok(<<>>)>>]
    [] OTHER -> [cb |-> <<>>, ret |-> <<>>]

\* simple_query_execute, the match on msg.ty: the arguments the callback is
\* called with and what is returned, if anything
SqMatch(msg) ==
  CASE msg.ty = "CommandComplete" -> [cb |-> <<msg.n>>, ret |-> <<>>]
    [] msg.ty = "EmptyQueryResponse" -> [cb |-> <<0>>, ret |-> <<>>]
    [] msg.ty = "ReadyForQuery" -> [cb |-> <<>>, ret |-> <<Ok(<<>>)>>]
    [] OTHER ->
         [cb |-> <<>>, ret |-> <<UnexpectedDatabaseMessage(MsgTag(msg))>>]

\* one turn of simple_query_execute's loop
SqFetch ==
  /\ pg_pc = "reading"
  /\ LET f == FetchMsgFromStream(pg_stream, pg_is_closed) IN
       /\ pg_stream' = f.stream
       /\ pg_is_closed' = f.is_closed
       /\ pg_read' = IF f.stream = pg_stream THEN pg_read
                     ELSE Append(pg_read, Head(pg_stream))
       /\ IF ~f.res.ok
            THEN /\ SqReturn(f.res)
                 /\ UNCHANGED pg_cb
            ELSE LET m == SqMatch(f.res.val) IN
                   /\ pg_cb' = pg_cb \o m.cb
                   /\ IF m.ret = <<>> THEN UNCHANGED <<pg_ret, pg_pc>>
                      ELSE SqReturn(m.ret[1])
  /\ UNCHANGED <<pg_written, pg_cmds>>
  /\ PgFrame

PgNext ==
  \/ SqWrite
  \/ SqFetch

(***************************************************************************)
(* The Postgres error (database/client/postgres/db_error.rs)               *)
(*                                                                         *)
(* A string is the sequence of its UTF-8 bytes; a range is <<begin, end>>. *)
(***************************************************************************)
\* the fields a body holds at most
MaxFields == 4

\* the tags of the fields, as bytes
TagC == 67

TagD == 68

TagF == 70

TagH == 72

TagL == 76

TagM == 77

TagP == 80

TagR == 82

TagS == 83

TagV == 86

TagW == 87

Tag_c == 99

Tag_d == 100

Tag_n == 110

Tag_p == 112

Tag_q == 113

Tag_s == 115

Tag_t == 116

\* Severity: the names of the enum, "DEBUG", "ERROR", "FATAL", "INFO", "LOG",
\* "NOTICE", "PANIC", "WARNING"
SeverityNames ==
  {<<68, 69, 66, 85, 71>>, <<69, 82, 82, 79, 82>>, <<70, 65, 84, 65, 76>>,
   <<73, 78, 70, 79>>, <<76, 79, 71>>, <<78, 79, 84, 73, 67, 69>>,
   <<80, 65, 78, 73, 67>>, <<87, 65, 82, 78, 73, 78, 71>>}

\* Severity::try_from(data)
SeverityTryFrom(data) ==
  IF data \in SeverityNames THEN Ok(data) ELSE Err("UnexpectedString")

\* SqlState::try_from(data): a five-character SQLSTATE
SqlStateTryFrom(data) ==
  IF Len(data) = 5 THEN Ok(data) ELSE Err("UnknownSqlState")

\* u32::from_radix_10(bytes)
RECURSIVE Radix10(_, _)
Radix10(bytes, acc) ==
  IF bytes = <<>> THEN Ok(acc)
  ELSE IF Head(bytes) < 48 \/ Head(bytes) > 57 THEN Err("InvalidRadix10")
  ELSE Radix10(Tail(bytes), acc * 10 + (Head(bytes) - 48))

FromRadix10(bytes) ==
  IF bytes = <<>> THEN Err("InvalidRadix10") ELSE Radix10(bytes, 0)

\* str_split1(rest, b'\0').next(): the bytes before the first zero byte, all
\* of them when there is none
RECURSIVE StrSplit1First(_)
StrSplit1First(rest) ==
  IF rest = <<>> \/ Head(rest) = 0 THEN <<>>
  ELSE <<Head(rest)>> \o StrSplit1First(Tail(rest))

\* str::get(range)
StrGet(str, range) ==
  IF range[1] <= range[2] /\ range[2] <= Len(str)
    THEN Some(SubSeq(str, range[1] + 1, range[2]))
    ELSE None

\* the locals of try_from before its loop
DbLocals ==
  [code |-> None, column |-> None, constraint |-> None, datatype |-> None,
   detail |-> None, file |-> None, hint |-> None, internal_position |-> None,
   internal_query |-> None, line |-> None, message |-> None,
   normal_position |-> None, routine |-> None, schema |-> None,
   severity_localized |-> None, severity_nonlocalized |-> None,
   table |-> None, where |-> None]

\* the local a tag's range is stored in
RangeLocal(ty) ==
  CASE ty = TagD -> "detail"
    [] ty = TagH -> "hint"
    [] ty = TagM -> "message"
    [] ty = TagR -> "routine"
    [] ty = TagS -> "severity_localized"
    [] ty = TagW -> "where"
    [] ty = Tag_c -> "column"
    [] ty = Tag_d -> "datatype"
    [] ty = TagF -> "file"
    [] ty = Tag_n -> "constraint"
    [] ty = Tag_q -> "internal_query"
    [] ty = Tag_s -> "schema"
    [] ty = Tag_t -> "table"
    [] OTHER -> ""

\* the local a tag's parsed value is stored in
ParsedLocal(ty) ==
  CASE ty = TagC -> "code"
    [] ty = TagL -> "line"
    [] ty = TagP -> "normal_position"
    [] ty = TagV -> "severity_nonlocalized"
    [] ty = Tag_p -> "internal_position"
    [] OTHER -> ""

\* try_from, the match on ty: the locals afterwards, or the error
DbMatch(l, ty, data, range) ==
  IF RangeLocal(ty) # "" THEN Ok([l EXCEPT ![RangeLocal(ty)] = Some(range)])
  ELSE IF ParsedLocal(ty) # "" THEN
    LET v == CASE ty = TagC -> SqlStateTryFrom(data)
               [] ty = TagV -> SeverityTryFrom(data)
               [] OTHER -> FromRadix10(data)
    IN IF v.ok THEN Ok([l EXCEPT ![ParsedLocal(ty)] = Some(v.val)]) ELSE v
  ELSE
    LET n == FromRadix10(<<ty>>) IN
      IF n.ok THEN Err("UnexpectedUint") ELSE n

\* into_rslt(opt)
IntoRslt(opt) == IF opt = None THEN Err("NoInnerValue") ELSE Ok(opt[1])

\* try_from behind its loop: the struct is built
DbBuild(from, idx, l) ==
  LET position ==
        IF l.normal_position # None
          THEN Ok(Some([ty |-> "Original", position |-> l.normal_position[1],
                        query |-> <<>>]))
        ELSE IF l.internal_position # None
          THEN IF l.internal_query = None THEN Err("NoInnerValue")
               ELSE Ok(Some([ty |-> "Internal",
                             position |-> l.internal_position[1],
                             query |-> l.internal_query[1]]))
        ELSE Ok(None)
  IN
    IF l.code = None \/ l.message = None \/ l.severity_localized = None
      THEN Err("NoInnerValue")
    ELSE IF ~position.ok THEN position
    ELSE Ok([buffer |-> IF idx <= Len(from) THEN SubSeq(from, 1, idx) ELSE <<>>,
             code |-> l.code[1], column |-> l.column,
             constraint |-> l.constraint, datatype |-> l.datatype,
             detail |-> l.detail, file |-> l.file, hint |-> l.hint,
             line |-> l.line, message |-> l.message[1],
             position |-> position.val, routine |-> l.routine,
             scheme |-> l.schema,
             severity_localized |-> l.severity_localized[1],
             severity_nonlocalized |-> l.severity_nonlocalized,
             table |-> l.table, where |-> l.where])

\* try_from from a turn of its loop on; idx counts the bytes passed
RECURSIVE DbLoop(_, _, _)
DbLoop(from, idx, l) ==
  IF idx > Len(from) THEN DbBuild(from, idx, l)
  ELSE
    LET curr == Rest(from, idx) IN
      \* split_at_checked(1): nothing is left, or the first character is
      \* longer than one byte
      IF curr = <<>> \/ curr[1] >= 128 THEN DbBuild(from, idx, l)
      ELSE
        LET ty == curr[1]
            rest == Rest(curr, 1)
            data == StrSplit1First(rest)
            begin == idx + 1
            end == begin + Len(data)
            m == DbMatch(l, ty, data, <<begin, end>>)
        IN IF ty = 0 THEN
             IF rest = <<>> THEN DbBuild(from, idx + 1, l)
             ELSE Err("UnexpectedString")
           ELSE IF ~m.ok THEN m
           ELSE DbLoop(from, end + 1, m.val)

\* impl TryFrom<&str> for DbError
DbErrorTryFrom(from) == DbLoop(from, 0, DbLocals)

\* the accessors that read a range of the buffer
DbOptStr(e, field) == IF e[field] = None THEN None ELSE StrGet(e.buffer, e[field][1])

\* message(), severity_localized(): unwrap_or_default
DbStr(e, field) ==
  LET v == StrGet(e.buffer, e[field]) IN IF v = None THEN <<>> ELSE v[1]

\* a field of a body: the tag and the value
Field(tag, data) == [tag |-> tag, data |-> data]

\* the fields a server sends: S "x", C "42601", M "m", D "dd", L "42",
\* V "LOG", H "", a field with the unknown tag Z and one whose tag is a
\* character of two bytes
DbFieldSet ==
  {Field(TagS, <<120>>), Field(TagC, <<52, 50, 54, 48, 49>>),
   Field(TagM, <<109>>), Field(TagD, <<100, 100>>), Field(TagL, <<52, 50>>),
   Field(TagV, <<76, 79, 71>>), Field(TagH, <<>>), Field(90, <<122>>),
   Field(195, <<169>>)}

\* the fields whose tag is not in q
FreshFields(q) == {f \in DbFieldSet : \A i \in 1..Len(q) : q[i].tag # f.tag}

\* the sequences of n fields, of up to n fields, of different tags
RECURSIVE FieldSeqsOfLen(_)
FieldSeqsOfLen(n) ==
  IF n = 0 THEN {<<>>}
  ELSE UNION {{Append(q, f) : f \in FreshFields(q)} : q \in FieldSeqsOfLen(n - 1)}

FieldSeqs(n) == UNION {FieldSeqsOfLen(i) : i \in 0..n}

\* the bytes of the fields, each value closed by a zero byte
RECURSIVE FieldBytes(_)
FieldBytes(q) ==
  IF q = <<>> THEN <<>>
  ELSE <<q[1].tag>> \o q[1].data \o <<0>> \o FieldBytes(Tail(q))

\* the bodies a peer may send for the fields: closed by a zero byte, not
\* closed, closed and followed by a byte, and with the zero byte behind the
\* last value missing as well
DbBodies(q) ==
  LET b == FieldBytes(q) IN
    {b \o <<0>>, b, b \o <<0, 120>>} \cup
    (IF b = <<>> THEN {} ELSE {SubSeq(b, 1, Len(b) - 1)})

DbInit ==
  /\ db_fields \in FieldSeqs(MaxFields)
  /\ db_from \in DbBodies(db_fields)
  /\ db_ret = <<>>

\* the fields try_from asks for: S "x", C "42601", M "m"
DbRequired ==
  <<Field(TagS, <<120>>), Field(TagC, <<52, 50, 54, 48, 49>>),
    Field(TagM, <<109>>)>>

\* the fields of a position: P "7", p "3", q "qq"
DbPosFields ==
  {Field(TagP, <<55>>), Field(Tag_p, <<51>>), Field(Tag_q, <<113, 113>>)}

\* the elements of q whose index is in I, in the order of q, from index i on
RECURSIVE Pick(_, _, _)
Pick(q, I, i) ==
  IF i > Len(q) THEN <<>>
  ELSE (IF i \in I THEN <<q[i]>> ELSE <<>>) \o Pick(q, I, i + 1)

\* the fields of S in every order
RECURSIVE Orders(_)
Orders(S) ==
  IF S = {} THEN {<<>>}
  ELSE UNION {{<<f>> \o q : q \in Orders(S \ {f})} : f \in S}

\* q with f put in behind its first k elements
InsertAt(q, k, f) == SubSeq(q, 1, k) \o <<f>> \o SubSeq(q, k + 1, Len(q))

\* the bodies of the position fields: some of S, C and M, then some of P, p
\* and q in any order, with or without a field whose tag is a character of
\* two bytes somewhere among them
DbPosInit ==
  /\ \E I \in SUBSET (1..Len(DbRequired)), T \in SUBSET DbPosFields :
       \E pos \in Orders(T) :
         LET q == Pick(DbRequired, I, 1) \o pos IN
           db_fields \in
             {q} \cup {InsertAt(q, k, Field(195, <<169>>)) : k \in 0..Len(q)}
  /\ db_from \in DbBodies(db_fields)
  /\ db_ret = <<>>

\* a call of DbError::try_from on the body
DbTryFrom ==
  /\ db_ret = <<>>
  /\ db_ret' = DbErrorTryFrom(db_from)
  /\ UNCHANGED <<db_fields, db_from>>
  /\ DbFrame

DbNext ==
  \/ DbTryFrom

(***************************************************************************)
(* The Postgres value codec (database/client/postgres/tys.rs)              *)
(*                                                                         *)
(* An integer or a float is its bit pattern: one limb of 8 bits for the    *)
(* types of one byte, limbs of 16 bits otherwise, the most significant     *)
(* limb first; a signed integer is in two's complement. A bool is a        *)
(* BOOLEAN. A Decimal is its sign, its mantissa and its scale.             *)
(***************************************************************************)
\* how many bytes more than the widest type a peer's buffer may hold
MaxPeerExtra == 1

SignedTys == {"i8", "i16", "i32", "i64"}

UnsignedTys == {"u8", "u16", "u32", "u64"}

FloatTys == {"f32", "f64"}

\* the types of impl_integer_from_array! and impl_primitive_from_array!
ArrayTys == SignedTys \cup UnsignedTys \cup FloatTys

\* size_of::<$ty>()
SizeOf(ty) ==
  CASE ty \in {"bool", "i8", "u8"} -> 1
    [] ty \in {"i16", "u16"} -> 2
    [] ty \in {"i32", "u32", "f32"} -> 4
    [] OTHER -> 8

\* $signed of the invocation of impl_integer_from_array! that has $unsigned
SignedOf(ty) ==
  CASE ty = "u8" -> "i8" [] ty = "u16" -> "i16" [] ty = "u32" -> "i32"
    [] OTHER -> "i64"

\* the limbs of a value of size bytes
Limbs(size) == IF size = 1 THEN 1 ELSE size \div 2

\* to_be_bytes
ToBeBytes(v, size) ==
  IF size = 1 THEN <<v[1]>>
  ELSE [i \in 1..size |->
          IF i % 2 = 1 THEN v[(i + 1) \div 2] \div 256 ELSE v[i \div 2] % 256]

\* the bytes read with the least significant byte first
FromLeBytes(bytes) ==
  IF Len(bytes) = 1 THEN <<bytes[1]>>
  ELSE [i \in 1..(Len(bytes) \div 2) |->
          bytes[Len(bytes) - 2 * i + 2] * 256 + bytes[Len(bytes) - 2 * i + 1]]

\* from_be_bytes
FromBeBytes(bytes) ==
  IF Len(bytes) = 1 THEN <<bytes[1]>>
  ELSE [i \in 1..(Len(bytes) \div 2) |-> bytes[2 * i - 1] * 256 + bytes[2 * i]]

\* *self >> ($unsigned::BITS - 1)
TopBit(v, size) == IF size = 1 THEN v[1] \div 128 ELSE v[1] \div 32768

\* FilledBufferWriter::_extend_from_slice, _extend_from_byte
ExtendFromSlice(fbw, bytes) == [ret |-> Ok(<<>>), fbw |-> fbw \o bytes]

\* encode of bool: the byte of (*self).into()
BoolEncode(val, fbw) == ExtendFromSlice(fbw, <<IF val THEN 1 ELSE 0>>)

\* decode of bool
BoolDecode(bytes) ==
  IF Len(bytes) # 1 THEN Err("UnexpectedBufferSize") ELSE Ok(bytes[1] # 0)

\* encode of impl_primitive_from_array!
ArrayEncode(ty, val, fbw) == ExtendFromSlice(fbw, ToBeBytes(val, SizeOf(ty)))

\* decode of impl_primitive_from_array!
ArrayDecode(ty, bytes) ==
  IF Len(bytes) = SizeOf(ty) THEN Ok(FromBeBytes(bytes))
  ELSE Err("UnexpectedBufferSize")

\* encode of $unsigned without the test of the top bit
UnsignedEncode_NoCheck(ty, val, fbw) ==
  ExtendFromSlice(fbw, ToBeBytes(val, SizeOf(ty)))

\* encode of $unsigned
UnsignedEncode(ty, val, fbw) ==
  IF TopBit(val, SizeOf(ty)) = 1
    THEN [ret |-> Err("InvalidPostgresUint"), fbw |-> fbw]
  ELSE ExtendFromSlice(fbw, ToBeBytes(val, SizeOf(ty)))

\* decode of $unsigned: decode of $signed, then try_into
UnsignedDecode(ty, bytes) ==
  LET signed == ArrayDecode(SignedOf(ty), bytes) IN
    IF ~signed.ok THEN signed
    ELSE IF TopBit(signed.val, SizeOf(ty)) = 1 THEN Err("InvalidPostgresUint")
    ELSE Ok(signed.val)

\* mod pg_numeric
DIGITS_CAP == 64

SIGN_NAN == 49152

SIGN_NEG == 16384

SIGN_POS == 0

\* u16::from_be_bytes([a, b])
U16Of(a, b) == a * 256 + b

\* i16::from_be_bytes([a, b])
I16Of(a, b) == IF a >= 128 THEN a * 256 + b - 65536 ELSE a * 256 + b

\* u16::to_be_bytes
U16ToBe(x) == <<x \div 256, x % 256>>

\* i16::to_be_bytes
I16ToBe(x) == U16ToBe((x + 65536) % 65536)

\* `as i16` of a usize that wrapped
I16Wrap(x) == ((x + 32768) % 65536) - 32768

\* impl From<Sign> for u16
SignToU16(sign) == IF sign = "Negative" THEN SIGN_NEG ELSE SIGN_POS

\* impl TryFrom<u16> for Sign
SignTryFrom(from) ==
  CASE from = SIGN_NAN -> Err("DecimalCanNotBeConvertedFromNaN")
    [] from = SIGN_NEG -> Ok("Negative")
    [] from = SIGN_POS -> Ok("Positive")
    [] OTHER -> Err("UnexpectedUint")

\* _PgNumeric::NaN and _PgNumeric::Number
PgNaN ==
  [nan |-> TRUE, digits |-> <<>>, scale |-> 0, sign |-> "Positive", weight |-> 0]

PgNumber(digits, scale, sign, weight) ==
  [nan |-> FALSE, digits |-> digits, scale |-> scale, sign |-> sign,
   weight |-> weight]

\* decode of _PgNumeric from its header on: the loop over the digits and the
\* struct
PgNumericBody(digits, weight, sign, scale, rest) ==
  LET array == [k \in 1..digits |->
                  IF Len(rest) >= 2 * k
                    THEN I16Of(rest[2 * k - 1], rest[2 * k]) ELSE 0]
      s == SignTryFrom(sign)
  IN IF ~s.ok THEN s ELSE Ok(PgNumber(array, scale, s.val, weight))

\* decode of _PgNumeric with the test of the digits before the test of NaN
PgNumericDecode_CapFirst(bytes) ==
  IF Len(bytes) < 8 THEN Err("UnexpectedBufferSize")
  ELSE
    LET digits == U16Of(bytes[1], bytes[2])
        weight == I16Of(bytes[3], bytes[4])
        sign == U16Of(bytes[5], bytes[6])
        scale == U16Of(bytes[7], bytes[8])
    IN IF digits > DIGITS_CAP \/ digits > 32767 THEN Err("VeryLargeDecimal")
       ELSE IF sign = SIGN_NAN THEN Ok(PgNaN)
       ELSE PgNumericBody(digits, weight, sign, scale, Rest(bytes, 8))

\* decode of _PgNumeric
PgNumericDecode(bytes) ==
  IF Len(bytes) < 8 THEN Err("UnexpectedBufferSize")
  ELSE
    LET digits == U16Of(bytes[1], bytes[2])
        weight == I16Of(bytes[3], bytes[4])
        sign == U16Of(bytes[5], bytes[6])
        scale == U16Of(bytes[7], bytes[8])
    IN IF sign = SIGN_NAN THEN Ok(PgNaN)
       ELSE IF digits > DIGITS_CAP \/ digits > 32767
         THEN Err("VeryLargeDecimal")
       ELSE PgNumericBody(digits, weight, sign, scale, Rest(bytes, 8))

\* the bytes of the digits
RECURSIVE DigitBytes(_)
DigitBytes(digits) ==
  IF digits = <<>> THEN <<>>
  ELSE I16ToBe(Head(digits)) \o DigitBytes(Tail(digits))

\* encode of _PgNumeric
PgNumericEncode(n, fbw) ==
  IF n.nan
    THEN ExtendFromSlice(fbw, I16ToBe(0) \o I16ToBe(0) \o U16ToBe(SIGN_NAN)
                                \o U16ToBe(0))
  ELSE IF Len(n.digits) > 32767
    THEN [ret |-> Err("OutOfBoundsArithmetic"), fbw |-> fbw]
  ELSE ExtendFromSlice(fbw, I16ToBe(Len(n.digits)) \o I16ToBe(n.weight)
                              \o U16ToBe(SignToU16(n.sign))
                              \o U16ToBe(n.scale) \o DigitBytes(n.digits))

RECURSIVE Pow10(_)
Pow10(k) == IF k = 0 THEN 1 ELSE 10 * Pow10(k - 1)

\* a Decimal: the sign, the mantissa and the scale
Decimal(neg, m, scale) == [neg |-> neg, m |-> m, scale |-> scale]

\* a number of the arithmetic of decode: m * 10^e
Num(m, e) == [m |-> m, e |-> e]

\* Decimal::from(10_000u16).checked_powi(weight)
CheckedPowi(weight) ==
  IF weight >= 0 THEN Num(Pow10(4 * weight), 0) ELSE Num(1, 4 * weight)

\* checked_mul
CheckedMul(a, b) == Num(a.m * b.m, a.e + b.e)

\* checked_add
CheckedAdd(a, b) ==
  LET e == Min(a.e, b.e) IN
    Num(a.m * Pow10(a.e - e) + b.m * Pow10(b.e - e), e)

\* rescale: the mantissa at the scale, rounded half away from zero when
\* digits are cut
Rescale(value, scale) ==
  LET k == value.e + scale IN
    IF k >= 0 THEN value.m * Pow10(k)
    ELSE (value.m + 5 * Pow10(-k - 1)) \div Pow10(-k)

\* decode of Decimal: the loop over the digits
RECURSIVE DecimalSum(_, _, _)
DecimalSum(digits, weight, value) ==
  IF digits = <<>> THEN value
  ELSE DecimalSum(Tail(digits), weight - 1,
                  CheckedAdd(value,
                             CheckedMul(Num(Head(digits), 0),
                                        CheckedPowi(weight))))

\* decode of Decimal
DecimalDecode(bytes) ==
  LET pg == PgNumericDecode(bytes) IN
    IF ~pg.ok THEN pg
    ELSE IF pg.val.nan THEN Err("DecimalCanNotBeConvertedFromNaN")
    ELSE IF pg.val.digits = <<>> THEN Ok(Decimal(FALSE, 0, 0))
    ELSE
      LET value == DecimalSum(pg.val.digits, pg.val.weight, Num(0, 0)) IN
        Ok(Decimal(pg.val.sign = "Negative", Rescale(value, pg.val.scale),
                   pg.val.scale))

\* the groups of four decimal digits of the mantissa, the lowest first
RECURSIVE Groups(_)
Groups(mantissa) ==
  IF mantissa = 0 THEN <<>>
  ELSE <<mantissa % 10000>> \o Groups(mantissa \div 10000)

\* digits.reverse()
Reverse(q) == [i \in 1..Len(q) |-> q[Len(q) + 1 - i]]

\* while let Some(&0) = digits.last() { digits.pop() }
RECURSIVE PopZeros(_)
PopZeros(digits) ==
  IF digits # <<>> /\ digits[Len(digits)] = 0
    THEN PopZeros(SubSeq(digits, 1, Len(digits) - 1))
  ELSE digits

\* encode of Decimal
DecimalEncode(val, fbw) ==
  IF val.m = 0 THEN PgNumericEncode(PgNumber(<<>>, 0, "Positive", 0), fbw)
  ELSE
    LET scale == val.scale
        diff == scale % 4
        mantissa == IF diff > 0 THEN val.m * Pow10(4 - diff) ELSE val.m
        digits == Reverse(Groups(mantissa))
        after_decimal == (scale + 3) \div 4
        weight == I16Wrap(Len(digits) - after_decimal - 1)
    IN PgNumericEncode(
         PgNumber(PopZeros(digits), scale,
                  IF val.neg THEN "Negative" ELSE "Positive", weight), fbw)

\* Encode::encode of the type
Encode(ty, val, fbw) ==
  CASE ty = "bool" -> BoolEncode(val, fbw)
    [] ty \in UnsignedTys -> UnsignedEncode(ty, val, fbw)
    [] ty = "Decimal" -> DecimalEncode(val, fbw)
    [] OTHER -> ArrayEncode(ty, val, fbw)

\* Decode::decode of the type
Decode(ty, bytes) ==
  CASE ty = "bool" -> BoolDecode(bytes)
    [] ty \in UnsignedTys -> UnsignedDecode(ty, bytes)
    [] ty = "Decimal" -> DecimalDecode(bytes)
    [] OTHER -> ArrayDecode(ty, bytes)

\* the limbs the values are made of
LimbVals(size) ==
  CASE size = 1 -> {0, 1, 37, 127, 128, 255}
    [] size = 8 -> {0, 37, 32768, 65535}
    [] OTHER -> {0, 37, 32767, 32768, 65535}

\* the values of a type
TyVals(ty) ==
  CASE ty = "bool" -> BOOLEAN
    [] ty = "Decimal" ->
         {Decimal(neg, m, scale) : neg \in BOOLEAN,
            m \in {0, 1, 100, 9999, 10000, 99999}, scale \in 0..5}
    [] OTHER -> SeqsOfLen(LimbVals(SizeOf(ty)), Limbs(SizeOf(ty)))

\* the bytes of a peer for a type of fixed width: a buffer of any length up
\* to the width and beyond
PeerBases ==
  {[i \in 1..(8 + MaxPeerExtra) |-> IF i = 1 THEN 128 ELSE i],
   [i \in 1..(8 + MaxPeerExtra) |-> IF i = 2 THEN 37 ELSE 0]}

FixedPeers(ty) ==
  {SubSeq(b, 1, n) : b \in PeerBases, n \in 0..(SizeOf(ty) + MaxPeerExtra)}

\* the bytes of a peer for a numeric: a header, up to two groups of digits,
\* whole, cut behind the seventh byte and without the last byte
NumericPeers ==
  LET whole ==
        {U16ToBe(nd) \o I16ToBe(w) \o U16ToBe(sign) \o U16ToBe(scale)
           \o SubSeq(<<35, 40, 0, 1>>, 1, 2 * g) :
           nd \in {0, 1, 2, DIGITS_CAP + 1, 32768}, w \in {0, -1},
           sign \in {SIGN_POS, SIGN_NEG, SIGN_NAN, 32768},
           scale \in {0, 1}, g \in 0..2}
  IN whole \cup {SubSeq(b, 1, 7) : b \in whole}
           \cup {SubSeq(b, 1, Len(b) - 1) : b \in whole}

Peers(ty) == IF ty = "Decimal" THEN NumericPeers ELSE FixedPeers(ty)

TyNames == {"bool", "Decimal"} \cup ArrayTys

TyInit ==
  /\ ty_ty \in TyNames
  /\ ty_val \in TyVals(ty_ty)
  /\ ty_fbw = <<>>
  /\ ty_enc = <<>>
  /\ ty_bytes = <<>>
  /\ ty_dec = <<>>
  /\ ty_pc = "new"

\* a call of encode on the value
TyEncode ==
  /\ ty_pc = "new"
  /\ LET r == Encode(ty_ty, ty_val, ty_fbw) IN
       /\ ty_enc' = r.ret
       /\ ty_fbw' = r.fbw
  /\ ty_pc' = "encoded"
  /\ UNCHANGED <<ty_ty, ty_val, ty_bytes, ty_dec>>
  /\ TyFrame

\* a call of decode on ev.fbw()._curr_bytes(), as the tests of the file do
TyDecodeEncoded ==
  /\ ty_pc = "encoded"
  /\ ty_enc.ok
  /\ ty_bytes' = ty_fbw
  /\ ty_dec' = Decode(ty_ty, ty_fbw)
  /\ ty_pc' = "decoded"
  /\ UNCHANGED <<ty_ty, ty_val, ty_fbw, ty_enc>>
  /\ TyFrame

\* a call of decode on the bytes of a peer
TyDecodePeer ==
  /\ ty_pc = "new"
  /\ \E bytes \in Peers(ty_ty) :
       /\ ty_bytes' = bytes
       /\ ty_dec' = Decode(ty_ty, bytes)
  /\ ty_pc' = "peer"
  /\ UNCHANGED <<ty_ty, ty_val, ty_fbw, ty_enc>>
  /\ TyFrame

TyNext ==
  \/ TyEncode
  \/ TyDecodeEncoded
  \/ TyDecodePeer

(***************************************************************************)
(* The string searches (misc/optimization.rs)                              *)
(*                                                                         *)
(* A string is the sequence of its UTF-8 bytes; indices count from 0 as in *)
(* the source.                                                             *)
(***************************************************************************)
\* the characters a string holds at most
MaxStrLen == 3

\* Iterator::position: the number of elements in front of the first one that
\* equals elem
IterPosition(q, elem) ==
  IF \E i \in 1..Len(q) : q[i] = elem
    THEN Some((CHOOSE i \in 1..Len(q) :
                 q[i] = elem /\ \A j \in 1..(i - 1) : q[j] # elem) - 1)
    ELSE None

\* memchr::memchr(elem, bytes): the index of the first byte that equals elem
Memchr(elem, bytes) == IterPosition(bytes, elem)

\* memchr::memrchr(elem, bytes): the index of the last byte that equals elem
Memrchr(elem, bytes) ==
  IF \E i \in 1..Len(bytes) : bytes[i] = elem
    THEN Some((CHOOSE i \in 1..Len(bytes) :
                 bytes[i] = elem /\ \A j \in (i + 1)..Len(bytes) :
                   bytes[j] # elem) - 1)
    ELSE None

\* str_pos1
StrPos1(str, elem, memchr) ==
  IF memchr THEN Memchr(elem, str) ELSE IterPosition(str, elem)

\* str_rpos1: without memchr, position() on the reversed iterator
StrRpos1(str, elem, memchr) ==
  IF memchr THEN Memrchr(elem, str) ELSE IterPosition(Reverse(str), elem)

\* str::is_char_boundary: the start, the end, or a byte that is no
\* continuation byte
IsCharBoundary(str, idx) ==
  \/ idx = 0
  \/ idx = Len(str)
  \/ idx < Len(str) /\ (str[idx + 1] < 128 \/ str[idx + 1] >= 192)

\* str.get(..idx)
StrGetTo(str, idx) ==
  IF IsCharBoundary(str, idx) THEN Some(SubSeq(str, 1, idx)) ELSE None

\* str.get(begin..)
StrGetFrom(str, begin) ==
  IF IsCharBoundary(str, begin)
    THEN Some(SubSeq(str, begin + 1, Len(str)))
    ELSE None

\* the tuple of the two halves around idx, `?` on either
SplitAround(str, idx) ==
  IF idx = None THEN None
  ELSE LET a == StrGetTo(str, idx[1])
           \* idx.wrapping_add(1): idx is below the length, nothing wraps
           b == StrGetFrom(str, idx[1] + 1)
       IN IF a = None \/ b = None THEN None ELSE Some(<<a[1], b[1]>>)

\* str_rsplit_once1: let idx = str_pos1(str, elem)?
StrRsplitOnce1(str, elem, memchr) ==
  SplitAround(str, StrPos1(str, elem, memchr))

\* str_split_once1: let idx = str_pos1(str, elem)?
StrSplitOnce1(str, elem, memchr) ==
  SplitAround(str, StrPos1(str, elem, memchr))

\* the characters of the strings: '/', 'a' and a character of two bytes
OptChars == {<<47>>, <<97>>, <<195, 169>>}

\* the strings of n characters, of up to n characters
RECURSIVE OptStrsOfLen(_)
OptStrsOfLen(n) ==
  IF n = 0 THEN {<<>>}
  ELSE {c \o q : c \in OptChars, q \in OptStrsOfLen(n - 1)}

OptStrs == UNION {OptStrsOfLen(n) : n \in 0..MaxStrLen}

OptInit ==
  /\ opt_str \in OptStrs
  /\ opt_elem \in {47, 97, 169}
  /\ opt_memchr \in BOOLEAN
  /\ opt_done = {}
  /\ opt_rpos = <<>>
  /\ opt_rsplit = <<>>
  /\ opt_split = <<>>

\* a call of str_rpos1
OptStrRpos1 ==
  /\ "str_rpos1" \notin opt_done
  /\ opt_rpos' = StrRpos1(opt_str, opt_elem, opt_memchr)
  /\ opt_done' = opt_done \cup {"str_rpos1"}
  /\ UNCHANGED <<opt_str, opt_elem, opt_memchr, opt_rsplit, opt_split>>
  /\ OptFrame

\* a call of str_rsplit_once1
OptStrRsplitOnce1 ==
  /\ "str_rsplit_once1" \notin opt_done
  /\ opt_rsplit' = StrRsplitOnce1(opt_str, opt_elem, opt_memchr)
  /\ opt_done' = opt_done \cup {"str_rsplit_once1"}
  /\ UNCHANGED <<opt_str, opt_elem, opt_memchr, opt_rpos, opt_split>>
  /\ OptFrame

\* a call of str_split_once1
OptStrSplitOnce1 ==
  /\ "str_split_once1" \notin opt_done
  /\ opt_split' = StrSplitOnce1(opt_str, opt_elem, opt_memchr)
  /\ opt_done' = opt_done \cup {"str_split_once1"}
  /\ UNCHANGED <<opt_str, opt_elem, opt_memchr, opt_rpos, opt_rsplit>>
  /\ OptFrame

OptNext ==
  \/ OptStrRpos1
  \/ OptStrRsplitOnce1
  \/ OptStrSplitOnce1

(***************************************************************************)
(* Specifications: one per subsystem; the other subsystems stay as built.  *)
(***************************************************************************)
\* the statement cache
StIdle == StInit /\ max_stmts = 1 /\ rs = 1

LkIdle == LkInit /\ lk_kind = "RefCell"

H2Idle ==
  /\ H2Init
  /\ \A id \in H2Ids : sorp[id].stream_state = "Open"

\* no frame header is being read: a server without extensions that has yet
\* to read an empty final Text frame
WsIdle ==
  /\ ws_is_client = FALSE
  /\ ws_no_masking = FALSE
  /\ ws_nc = [is_noop |-> TRUE, rsv1 |-> 0]
  /\ ws_usize_bits = 64
  /\ ws_max_payload_len = UsizeMax(64)
  /\ ws_input = WsHeader(FIN_MASK + 1, <<0>>, TRUE)
  /\ ws_bytes = ws_input
  /\ ws_result = <<>>
  /\ ws_stream = ws_input
  /\ ws_buffer = <<>>
  /\ ws_ctx = <<>>
  /\ ws_sresult = <<>>
  /\ ws_cancels = 0
  /\ ws_pc = "start"

\* no query runs and the server has sent nothing
PgIdle ==
  /\ pg_stream = <<>>
  /\ pg_is_closed = FALSE
  /\ pg_pc = "idle"
  /\ pg_ret = <<>>
  /\ pg_cb = <<>>
  /\ pg_read = <<>>
  /\ pg_written = 0
  /\ pg_cmds = 0

\* no error is being parsed
DbIdle ==
  /\ db_fields = <<>>
  /\ db_from = <<0>>
  /\ db_ret = <<>>

\* no value is being encoded or decoded
TyIdle ==
  /\ ty_ty = "bool"
  /\ ty_val = FALSE
  /\ ty_fbw = <<>>
  /\ ty_enc = <<>>
  /\ ty_bytes = <<>>
  /\ ty_dec = <<>>
  /\ ty_pc = "new"

\* no string is being searched
OptIdle ==
  /\ opt_str = <<>>
  /\ opt_elem = 0
  /\ opt_memchr = FALSE
  /\ opt_done = {}
  /\ opt_rpos = <<>>
  /\ opt_rsplit = <<>>
  /\ opt_split = <<>>

SpecInit ==
  /\ StInit /\ LkIdle /\ H2Idle /\ WsIdle /\ PgIdle /\ DbIdle /\ TyIdle
  /\ OptIdle

Spec == SpecInit /\ [][StNext]_vars

\* the lock abstraction
LockInit ==
  /\ LkInit /\ StIdle /\ H2Idle /\ WsIdle /\ PgIdle /\ DbIdle /\ TyIdle
  /\ OptIdle

LockSpec == LockInit /\ [][LkNext]_vars

\* the HTTP/2 server streams of one connection
H2SpecInit ==
  /\ H2Init /\ StIdle /\ LkIdle /\ WsIdle /\ PgIdle /\ DbIdle /\ TyIdle
  /\ OptIdle

H2Spec == H2SpecInit /\ [][H2Next]_vars

\* the WebSocket frame-header reader: from_bytes, then from_stream, on the
\* same bytes and with the same parameters
WsSpecInit ==
  /\ WsInit /\ StIdle /\ LkIdle /\ H2Idle /\ PgIdle /\ DbIdle /\ TyIdle
  /\ OptIdle

WsSpec == WsSpecInit /\ [][WsNext]_vars

\* the frame-header reader of a 64-bit server whose caller drops the future
\* of from_stream and calls again
WsCancelInit ==
  /\ WsSpecInit
  /\ ~ws_is_client
  /\ ws_usize_bits = 64
  /\ ws_max_payload_len = U64(126)

WsCancelSpec == WsCancelInit /\ [][WsCancelNext]_vars

\* the simple query of a Postgres executor
PgSpecInit ==
  /\ PgInit /\ StIdle /\ LkIdle /\ H2Idle /\ WsIdle /\ DbIdle /\ TyIdle
  /\ OptIdle

PgSpec == PgSpecInit /\ [][PgNext]_vars

\* the parser of the Postgres error
DbSpecInit ==
  /\ DbInit /\ StIdle /\ LkIdle /\ H2Idle /\ WsIdle /\ PgIdle /\ TyIdle
  /\ OptIdle

DbSpec == DbSpecInit /\ [][DbNext]_vars

\* the parser of the Postgres error on bodies with position fields
DbPosSpecInit ==
  /\ DbPosInit /\ StIdle /\ LkIdle /\ H2Idle /\ WsIdle /\ PgIdle /\ TyIdle
  /\ OptIdle

DbPosSpec == DbPosSpecInit /\ [][DbNext]_vars

\* the Postgres value codec: a value is encoded and the bytes are decoded,
\* or the bytes of a peer are decoded
TySpecInit ==
  /\ TyInit /\ StIdle /\ LkIdle /\ H2Idle /\ WsIdle /\ PgIdle /\ DbIdle
  /\ OptIdle

TySpec == TySpecInit /\ [][TyNext]_vars

\* the string searches, each called once on the same string and byte
OptSpecInit ==
  /\ OptInit /\ StIdle /\ LkIdle /\ H2Idle /\ WsIdle /\ PgIdle /\ DbIdle
  /\ TyIdle

OptSpec == OptSpecInit /\ [][OptNext]_vars

\* the lock abstraction under a scheduler that polls every task it may poll
LockFairSpec == LockSpec /\ LkFairness

(***************************************************************************)
(* Properties of the statement cache                                       *)
(***************************************************************************)
\* max_stmts + 1 statements with distinct ids have been prepared (each by a
\* builder call followed by build) on the cache as constructed, and nothing
\* else has been done to it.
PreparedOneOverCapacity ==
  /\ sb = 0
  /\ ~cleared
  /\ n_build = max_stmts + 1
  /\ n_builder = n_build
  /\ n_ids = n_build

\* C1 (as stated): after max_stmts + 1 distinct preparations on an empty cache
\* the first inserted statement is gone and exactly max_stmts / 2 (integer
\* division) statements have been evicted.
C1_FifoHalfEvicted ==
  PreparedOneOverCapacity =>
    /\ GetByStmtCmdId(first_id) = None
    /\ n_evicted = max_stmts \div 2

\* C1 (amended): after max_stmts + 1 distinct preparations on an empty cache
\* the first inserted statement is gone and exactly max(1, max_stmts / 2)
\* statements have been evicted.
C1_FifoAtLeastOneEvicted ==
  PreparedOneOverCapacity =>
    /\ GetByStmtCmdId(first_id) = None
    /\ n_evicted = (IF max_stmts \div 2 >= 1 THEN max_stmts \div 2 ELSE 1)

\* C1 witness: a cache of capacity 3 after its fourth distinct preparation.
C1_Witness ==
  /\ PreparedOneOverCapacity
  /\ max_stmts = 3
  /\ st_op = "build"
  /\ n_evicted = 1
  /\ Len(stmts) = 3

\* what a caller may observe through a handle obtained for statement `id`:
\* that statement, or nothing
OwnOrNone(seen, id) == seen = None \/ seen[1].aux = id

\* C2: a caller holding a handle of an earlier build, the positional index
\* accepted by get_by_idx or the statement id accepted by get_by_stmt_cmd_id,
\* observes on the next use its own statement or nothing, never another
\* statement.
C2_HandleNeverAliased ==
  held # <<>> =>
    /\ OwnOrNone(GetByIdx(held[2]), held[1])
    /\ OwnOrNone(GetByStmtCmdId(held[1]), held[1])

\* C3: while every eviction callback has succeeded, each statement built and
\* neither evicted nor cleared is resolved by its id to exactly the block it
\* was built with, and each evicted id resolves to nothing.
C3_IdResolvesOwnStatement ==
  ~cb_failed =>
    /\ \A id \in DOMAIN live : GetByStmtCmdId(id) = Some(live[id])
    /\ \A id \in gone : GetByStmtCmdId(id) = None

\* C3 witness: an eviction has re-mapped the indices of two statements that
\* are still cached.
C3_Witness ==
  /\ ~cb_failed
  /\ n_evicted > 0
  /\ gone # {}
  /\ Cardinality(DOMAIN live) >= 2
  /\ \E id \in DOMAIN live : id \in DOMAIN stmts_indcs /\ stmts_indcs[id] = 0

\* C4: clear leaves no id that was ever inserted resolvable and keeps
\* max_stmts and the hasher state; after it no statement is evicted before
\* max_stmts new ones have been built.
C4_ClearForgetsAll ==
  [][ /\ st_op' = "clear" =>
           /\ max_stmts' = max_stmts
           /\ rs' = rs
           /\ \A id \in gone' \cup DOMAIN live' : GetByStmtCmdId(id)' = None
      /\ (cleared' /\ ev_since_clear' > 0) => n_since_clear' >= max_stmts'
    ]_vars

\* C4 witness: a cache that evicted, was cleared and has since taken
\* max_stmts new statements without evicting.
C4_Witness ==
  /\ cleared
  /\ n_evicted > 0
  /\ max_stmts >= 2
  /\ n_since_clear = max_stmts
  /\ ev_since_clear = 0
  /\ \A id \in DOMAIN live : GetByStmtCmdId(id) = Some(live[id])

(***************************************************************************)
(* Properties of the lock abstraction                                      *)
(***************************************************************************)
\* the tasks that hold a guard of lock object o
Holders(o) == {t \in LkTasks : lk_obj[t] = o /\ lk_pc[t] = "holding"}

\* C5: for every implementation and through every clone of a handle, at most
\* one guard of a lock exists at a time; the clones of one lock guard one
\* resource, so that a write through one guard is what every clone reads; and
\* a lock with no guard left is free to be taken again.
C5_MutualExclusion ==
  /\ \A o \in LkCells : Cardinality(Holders(o)) <= 1
  /\ \A t \in LkTasks : lk_pc[t] = "holding" => lk_owner[Deref(t)] = t
  /\ \A t \in LkTasks : lk_value[Deref(t)] = lk_last[lk_obj[t]]
  /\ \A o \in LkCells : Holders(o) = {} => lk_owner[o] = 0

\* C5 witness: two clones of one lock, one task holds the guard and has
\* written the resource, the other has been refused.
C5_Witness ==
  \E t, u \in LkTasks :
    /\ t # u
    /\ lk_obj[t] = lk_obj[u]
    /\ lk_pc[t] = "holding"
    /\ lk_pc[u] = "pending"
    /\ lk_value[Deref(u)] = 2
    /\ \E w \in LkTasks : w # t /\ w # u /\ lk_obj[w] = lk_obj[t]

\* C6: a task that waits for a RefCell-backed lock eventually holds its guard,
\* when pending tasks are polled again only once woken and every holder
\* eventually drops its guard.
C6_WaiterEventuallyHolds ==
  \A t \in LkTasks :
    (lk_kind = "RefCell" /\ lk_pc[t] \in {"locking", "pending"})
      ~> (lk_pc[t] = "holding")

(***************************************************************************)
(* Properties of the HTTP/2 server stream                                  *)
(***************************************************************************)
\* C7: recv_req returns Ok only when the sorp entry of its own stream has
\* reached END_STREAM; what it returns is the stream buffer of that entry with
\* the method of the handle, the entry is gone from sorp, and scrp holds an
\* entry with the same stream state and windows under the same id.
C7_RecvReqReturn ==
  [][ \A s \in H2Handles :
        (h2_pc[s] # "recv_ok" /\ h2_pc'[s] = "recv_ok") =>
          /\ StreamId(s) \in DOMAIN sorp
          /\ RecvEos(sorp[StreamId(s)].stream_state)
          /\ h2_ret'[s] = <<sorp[StreamId(s)].sb, h2_method[s]>>
          /\ StreamId(s) \notin DOMAIN sorp'
          /\ StreamId(s) \in DOMAIN scrp'
          /\ scrp'[StreamId(s)].stream_state = sorp[StreamId(s)].stream_state
          /\ scrp'[StreamId(s)].windows = sorp[StreamId(s)].windows
          /\ \A id \in H2Ids \ {StreamId(s)} :
               /\ id \in DOMAIN sorp <=> id \in DOMAIN sorp'
               /\ id \in DOMAIN scrp <=> id \in DOMAIN scrp'
    ]_vars

\* C7 witness: recv_req has returned a request with a body after END_STREAM
\* while the other stream is still being received.
C7_Witness ==
  \E s \in H2Handles :
    /\ h2_pc[s] = "recv_ok"
    /\ h2_ret[s] = <<1, h2_method[s]>>
    /\ StreamId(s) \notin DOMAIN sorp
    /\ StreamId(s) \in DOMAIN scrp
    /\ scrp[StreamId(s)] =
         [stream_state |-> "HalfClosedRemote", windows |-> InitWindow - 1]
    /\ \E u \in H2Handles : u # s /\ StreamId(u) \in DOMAIN sorp

\* a map holds no open entry for the stream
NoOpenEntry(m, id) == id \in DOMAIN m => m[id].stream_state = "Closed"

\* C8: once send_reset has returned Ok, before or after recv_req, the
\* connection holds no open entry for the stream in sorp or in scrp.
C8_ResetClosesStream ==
  \A s \in H2Handles :
    h2_pc[s] = "reset_ok" =>
      /\ NoOpenEntry(sorp, StreamId(s))
      /\ NoOpenEntry(scrp, StreamId(s))

\* C9: no operation of a ServerStream awaits a write to the network stream
\* while it holds the guard of the connection lock.
C9_IoUnlocked ==
  \A s \in H2Handles : h2_pc[s] \in H2Writing => h2_guard # s

(***************************************************************************)
(* C10  mask policy on read.  A server rejects every frame whose mask bit  *)
(* is wrong for what was negotiated (clear without no_masking, set with    *)
(* no_masking): from_bytes and from_stream return InvalidMaskBit for it,   *)
(* unless an earlier step of the header already failed (too few bytes, a   *)
(* reserved bit, an unknown opcode, a length that does not fit usize), and *)
(* never go on to the checks behind the mask.  Every other frame a server  *)
(* reads passes the mask check: neither function returns InvalidMaskBit.   *)
(***************************************************************************)
WsMaskBit == Len(ws_input) >= 2 /\ ws_input[2] >= MASK_MASK

WsWrongMaskBit == Len(ws_input) >= 2 /\ (WsMaskBit <=> ws_no_masking)

WsEarlierErrors ==
  {"UnexpectedBufferState", "UnexpectedStreamReadEOF",
   "InvalidCompressionHeaderParameter", "InvalidOpCodeByte", "TryFromIntError"}

WsMaskPolicy(res) ==
  IF WsWrongMaskBit
    THEN ~res.ok /\ res.err \in {"InvalidMaskBit"} \cup WsEarlierErrors
    ELSE res.err # "InvalidMaskBit"

C10_ServerMaskPolicy ==
  ~ws_is_client =>
    /\ ws_result # <<>> => WsMaskPolicy(ws_result)
    /\ ws_sresult # <<>> => WsMaskPolicy(ws_sresult)

C10_Witness ==
  /\ ~ws_is_client /\ ws_no_masking /\ WsMaskBit
  /\ ws_pc = "stream_done"
  /\ ws_result.err = "InvalidMaskBit"
  /\ ws_sresult.err = "InvalidMaskBit"

(***************************************************************************)
(* What the peer sent, read off the bytes independently of the reader      *)
(***************************************************************************)
\* from_bytes has returned; from_stream has returned
WsBytesDone == ws_result # <<>>

WsStreamDone == ws_sresult # <<>>

WsSentFin == ws_input[1] >= FIN_MASK

WsSentRsv1 == (ws_input[1] \div RSV1_MASK) % 2 = 1

WsSentControl == ws_input[1] % 16 >= 8

WsSentCode == ws_input[2] % 128

\* the bytes hold the length code and the whole extended length
WsHasLen ==
  /\ Len(ws_input) >= 2
  /\ Len(ws_input) >= 2 + (CASE WsSentCode = 126 -> 2
                             [] WsSentCode = 127 -> 8
                             [] OTHER -> 0)

WsSentLen ==
  CASE WsSentCode = 126 -> <<0, 0, 0, 0, 0, 0, ws_input[3], ws_input[4]>>
    [] WsSentCode = 127 -> SubSeq(ws_input, 3, 10)
    [] OTHER -> <<0, 0, 0, 0, 0, 0, 0, WsSentCode>>

\* C11: for both roles, a control frame (Close, Ping, Pong) with fin=0 or
\* with a payload longer than 125 bytes never yields a ReadFrameInfo, from
\* from_bytes or from from_stream.
WsBadControl ==
  /\ WsHasLen
  /\ WsSentControl
  /\ ~WsSentFin \/ Gt(WsSentLen, <<0, 0, 0, 0, 0, 0, 0, 125>>)

C11_ControlFramePolicy ==
  WsBadControl =>
    /\ WsBytesDone => ~ws_result.ok
    /\ WsStreamDone => ~ws_sresult.ok

\* C12: when from_bytes rejects a control frame for fin=0 or a payload over
\* 125 bytes the caller's cursor is where it was before the call; when
\* from_stream does, the read counter and the network buffer are as they
\* were before the frame was examined.
WsControlErrors == {"UnexpectedFragmentedControlFrame", "VeryLargeControlFrame"}

C12_RejectionMutatesNothing ==
  /\ (WsBytesDone /\ ws_result.err \in WsControlErrors) => ws_bytes = ws_input
  /\ (WsStreamDone /\ ws_sresult.err \in WsControlErrors)
       => (ws_buffer = <<>> /\ ws_stream = ws_input)

\* C13: a frame with length code 127 whose extended length is 2^63 or more is
\* rejected by from_bytes and from_stream, whatever max_payload_len is.
WsSentHugeLen == WsHasLen /\ WsSentCode = 127 /\ ws_input[3] >= 128

C13_HugeLengthRejected ==
  WsSentHugeLen =>
    /\ WsBytesDone => ~ws_result.ok
    /\ WsStreamDone => ~ws_sresult.ok

\* C14: a frame whose payload length is max_payload_len or more is rejected;
\* VeryLargePayload is returned for such a frame only, so a frame that passes
\* every other check with a shorter payload is accepted with the length that
\* was sent; max_payload_len = 0 rejects every frame.
WsPayloadLimit(res) ==
  /\ (WsHasLen /\ Ge(WsSentLen, ws_max_payload_len)) => ~res.ok
  /\ res.err = "VeryLargePayload"
       => (WsHasLen /\ Ge(WsSentLen, ws_max_payload_len))
  /\ res.ok => (res.val.payload_len = WsSentLen
                /\ Lt(res.val.payload_len, ws_max_payload_len))
  /\ ws_max_payload_len = <<0, 0, 0, 0, 0, 0, 0, 0>> => ~res.ok

C14_PayloadLimit ==
  /\ WsBytesDone => WsPayloadLimit(ws_result)
  /\ WsStreamDone => WsPayloadLimit(ws_sresult)

C14_Witness ==
  /\ ws_pc = "stream_done"
  /\ ws_max_payload_len = <<0, 0, 0, 0, 0, 0, 0, 0>>
  /\ WsHasLen /\ WsSentCode = 0
  /\ ws_result.err = "VeryLargePayload"
  /\ ws_sresult.err = "VeryLargePayload"

\* C15: a frame with rsv1=1 is accepted only when the negotiated compression's
\* rsv1() is not zero; with any other capability, the no-op one included, it
\* is rejected.
C15_Rsv1Policy ==
  (Len(ws_input) >= 2 /\ WsSentRsv1 /\ ws_nc.rsv1 = 0) =>
    /\ WsBytesDone => ~ws_result.ok
    /\ WsStreamDone => ~ws_sresult.ok

\* C16: however often the future of from_stream is dropped at a suspension
\* point and from_stream called again with the same buffer and read counter,
\* the call that returns returns what one uninterrupted call on the same
\* bytes returns, and the bytes in the buffer followed by the bytes left in
\* the stream are the bytes that were sent, in order, each once.
C16_CancelSafe ==
  /\ ws_buffer \o ws_stream = ws_input
  /\ WsStreamDone =>
       ws_sresult = FromStream(ws_input, ws_max_payload_len, ws_nc,
                               ws_no_masking, ws_is_client, ws_usize_bits)

C16_Witness ==
  /\ ws_pc = "stream_done"
  /\ ws_cancels >= 2
  /\ ws_sresult.ok
  /\ ws_sresult.val.mask = Some(WsMaskKey)
  /\ ws_sresult.val.header_len = 6
  /\ ws_sresult.val.payload_len = <<0, 0, 0, 0, 0, 0, 0, 125>>

(***************************************************************************)
(* Properties of the Postgres simple query                                 *)
(***************************************************************************)
\* the callback arguments that a sequence of messages asks for
RECURSIVE PgExpectedCb(_)
PgExpectedCb(log) ==
  IF log = <<>> THEN <<>>
  ELSE (IF log[1].ty = "CommandComplete" THEN <<log[1].n>>
        ELSE IF log[1].ty = "EmptyQueryResponse" THEN <<0>>
        ELSE <<>>) \o PgExpectedCb(Tail(log))

PgReadToReady ==
  /\ pg_read # <<>>
  /\ pg_read[Len(pg_read)].ty = "ReadyForQuery"

\* C17: simple_query_execute writes its Query message once; the callback has
\* been called once per CommandComplete read, with its row count, and once
\* with 0 per EmptyQueryResponse read, in the order of arrival; Ok is
\* returned when the first ReadyForQuery has been read and no message behind
\* it has.
C17_SimpleQueryDispatch ==
  /\ pg_written <= 1
  /\ pg_cb = PgExpectedCb(pg_read)
  /\ (pg_pc = "returned" /\ pg_ret.ok) =>
       /\ pg_written = 1
       /\ PgReadToReady
       /\ \A i \in 1..(Len(pg_read) - 1) : pg_read[i].ty # "ReadyForQuery"

C17_Witness ==
  /\ pg_pc = "returned"
  /\ pg_ret.ok
  /\ pg_cb = <<2, 0>>
  /\ pg_stream # <<>>

\* C18: when simple_query_execute returns an error that a server message
\* caused, every message up to and including the ReadyForQuery that ends the
\* command has been read.
C18_ErrorDrained ==
  (pg_pc = "returned" /\ pg_ret.err \in {"DbError", "UnexpectedDatabaseMessage"})
    => PgReadToReady

\* C19: when simple_query_execute returns UnexpectedDatabaseMessage the
\* executor is closed.
C19_ViolationCloses ==
  (pg_pc = "returned" /\ pg_ret.err = "UnexpectedDatabaseMessage")
    => pg_is_closed

(***************************************************************************)
(* Properties of the Postgres error                                        *)
(***************************************************************************)
\* the value the body holds for a tag
DbSent(tag) ==
  IF \E i \in 1..Len(db_fields) : db_fields[i].tag = tag
    THEN Some((CHOOSE f \in {db_fields[i] : i \in 1..Len(db_fields)} :
                 f.tag = tag).data)
    ELSE None

DbOptionalStrs ==
  {<<TagD, "detail">>, <<TagH, "hint">>, <<TagF, "file">>,
   <<TagR, "routine">>, <<Tag_c, "column">>, <<Tag_n, "constraint">>,
   <<Tag_d, "datatype">>, <<Tag_s, "scheme">>, <<Tag_t, "table">>,
   <<TagW, "where">>}

\* C20: when try_from returns Ok, message() and severity_localized() are the
\* values of M and S, every optional accessor is the value of its tag, or
\* None when the body has no such field, line() is the number of L, and
\* every stored range lies inside the buffer.
C20_FieldValues ==
  (db_ret # <<>> /\ db_ret.ok) =>
    LET e == db_ret.val IN
      /\ Some(DbStr(e, "message")) = DbSent(TagM)
      /\ Some(DbStr(e, "severity_localized")) = DbSent(TagS)
      /\ \A x \in DbOptionalStrs : DbOptStr(e, x[2]) = DbSent(x[1])
      /\ e.line = (IF DbSent(TagL) = None THEN None
                   ELSE Some(FromRadix10(DbSent(TagL)[1]).val))
      /\ e.message[2] <= Len(e.buffer)
      /\ e.severity_localized[2] <= Len(e.buffer)
      /\ \A x \in DbOptionalStrs :
           e[x[2]] # None => e[x[2]][1][2] <= Len(e.buffer)

\* the tags the match of try_from knows
DbKnownTags ==
  {TagC, TagD, TagF, TagH, TagL, TagM, TagP, TagR, TagS, TagV, TagW,
   Tag_c, Tag_d, Tag_n, Tag_p, Tag_q, Tag_s, Tag_t}

\* the body holds a field whose tag the match does not know
DbSentUnknownTag ==
  \E i \in 1..Len(db_fields) : db_fields[i].tag \notin DbKnownTags

\* the body holds the closing zero byte and a byte behind it
DbSentTrailing == db_from = FieldBytes(db_fields) \o <<0, 120>>

\* C21: a body that holds a field with an unrecognised tag, or a zero tag
\* byte followed by further bytes, is a parse error: try_from returns no
\* DbError for it.
C21_FramingErrors ==
  (db_ret # <<>> /\ (DbSentUnknownTag \/ DbSentTrailing)) => ~db_ret.ok

(***************************************************************************)
(* Properties of the Postgres value codec                                  *)
(***************************************************************************)
\* encode has returned
TyEncoded == ty_pc \in {"encoded", "decoded"}

\* the value is an unsigned integer with the top bit set
TyTopBitSet == ty_ty \in UnsignedTys /\ TopBit(ty_val, SizeOf(ty_ty)) = 1

\* the bytes are the value, the most significant byte first
TyBigEndian(bytes, val) ==
  IF Len(bytes) = 1 THEN bytes[1] = val[1]
  ELSE \A k \in 1..Len(val) :
         /\ bytes[2 * k - 1] = val[k] \div 256
         /\ bytes[2 * k] = val[k] % 256

\* C22: encoding a uN with the top bit set fails with InvalidPostgresUint and
\* appends no byte; encoding a uN below 2^(N-1) writes the N/8 big-endian
\* bytes the iN encoding of the value writes; decoding N/8 bytes whose sign
\* bit is set into uN fails with InvalidPostgresUint.
C22_UnsignedEncoding ==
  /\ (TyEncoded /\ TyTopBitSet) =>
       (ty_enc = Err("InvalidPostgresUint") /\ ty_fbw = <<>>)
  /\ (TyEncoded /\ ty_ty \in UnsignedTys /\ ~TyTopBitSet) =>
       /\ ty_enc.ok
       /\ Len(ty_fbw) = SizeOf(ty_ty)
       /\ TyBigEndian(ty_fbw, ty_val)
       /\ ty_fbw = ArrayEncode(SignedOf(ty_ty), ty_val, <<>>).fbw
  /\ (ty_pc = "peer" /\ ty_ty \in UnsignedTys
        /\ Len(ty_bytes) = SizeOf(ty_ty) /\ ty_bytes[1] >= 128) =>
       ty_dec = Err("InvalidPostgresUint")

\* a u64 with the top bit set was handed to encode, which failed and wrote
\* nothing
C22_Witness ==
  /\ ty_ty = "u64"
  /\ ty_pc = "encoded"
  /\ TyTopBitSet
  /\ ~ty_enc.ok
  /\ ty_fbw = <<>>

\* the types and values of the round trip: bool, iN, and uN without the top
\* bit
TyRoundTrips ==
  \/ ty_ty = "bool"
  \/ ty_ty \in SignedTys
  \/ ty_ty \in UnsignedTys /\ ~TyTopBitSet

\* C23: for every bool, iN, and uN without the top bit, encode succeeds and
\* writes exactly the width of the type in bytes, big-endian, and decode of
\* these bytes returns the value.
C23_PrimitiveRoundTrip ==
  /\ (TyEncoded /\ TyRoundTrips) =>
       /\ ty_enc.ok
       /\ Len(ty_fbw) = SizeOf(ty_ty)
       /\ IF ty_ty = "bool" THEN ty_fbw = <<IF ty_val THEN 1 ELSE 0>>
          ELSE TyBigEndian(ty_fbw, ty_val)
  /\ (ty_pc = "decoded" /\ TyRoundTrips) =>
       (ty_dec.ok /\ ty_dec.val = ty_val)

\* a negative i64 came back from its eight bytes
C23_Witness ==
  /\ ty_ty = "i64"
  /\ ty_pc = "decoded"
  /\ ty_val = <<65535, 0, 37, 32768>>
  /\ ty_bytes = <<255, 255, 0, 0, 0, 37, 128, 0>>
  /\ ty_dec.ok
  /\ ty_dec.val = ty_val

\* C24: a Decimal that is encoded and decoded comes back with its mantissa,
\* its sign and its scale, zero with a scale that is not zero included.
C24_NumericRoundTrip ==
  (ty_pc = "decoded" /\ ty_ty = "Decimal") =>
    /\ ty_dec.ok
    /\ ty_dec.val.m = ty_val.m
    /\ ty_dec.val.scale = ty_val.scale
    /\ ty_val.m # 0 => ty_dec.val.neg = ty_val.neg

\* the peer sent a numeric whose sign field is the NaN marker
TySentNaN ==
  /\ ty_pc = "peer"
  /\ ty_ty = "Decimal"
  /\ Len(ty_bytes) >= 6
  /\ U16Of(ty_bytes[5], ty_bytes[6]) = SIGN_NAN

\* C25: decoding a numeric whose sign field is the NaN marker into a Decimal
\* never yields a Decimal, and the error is DecimalCanNotBeConvertedFromNaN
\* whatever ndigits, weight and scale hold.
C25_NaNIsError ==
  TySentNaN =>
    /\ ~ty_dec.ok
    /\ Len(ty_bytes) >= 8 => ty_dec.err = "DecimalCanNotBeConvertedFromNaN"

\* a NaN that announces more digits than the decoder holds was refused as NaN
C25_Witness ==
  /\ TySentNaN
  /\ Len(ty_bytes) >= 8
  /\ U16Of(ty_bytes[1], ty_bytes[2]) > DIGITS_CAP
  /\ ty_dec = Err("DecimalCanNotBeConvertedFromNaN")

\* the peer sent a buffer of unexpected size: not the width of a type of
\* fixed width, a numeric of fewer than 8 bytes, or a numeric with fewer
\* groups of digits than its ndigits field announces
TySentUnexpectedSize ==
  /\ ty_pc = "peer"
  /\ \/ ty_ty # "Decimal" /\ Len(ty_bytes) # SizeOf(ty_ty)
     \/ ty_ty = "Decimal" /\ Len(ty_bytes) < 8
     \/ /\ ty_ty = "Decimal"
        /\ Len(ty_bytes) >= 8
        /\ Len(ty_bytes) - 8 < 2 * U16Of(ty_bytes[1], ty_bytes[2])

\* C26: a decode from a buffer of unexpected size returns an error instead
\* of a value.
C26_UnexpectedSizeIsError == TySentUnexpectedSize => ~ty_dec.ok

(***************************************************************************)
(* Further properties of the statement cache                               *)
(***************************************************************************)
\* the ids of the cached statements
CachedIds == {stmts[i].aux : i \in 1..Len(stmts)}

\* C27: while every call of builder has returned a StatementBuilder (the
\* sequences of builder-then-build and clear), the cache holds at most
\* max(max_stmts, 1) statements, whatever max_stmts was given to new, and
\* the index map has exactly one entry per cached statement: the ids of the
\* cached statements differ and each is mapped to the position of its own
\* statement.
C27_CacheBound ==
  ~cb_failed =>
    /\ max_stmts >= 1
    /\ Len(stmts) <= max_stmts
    /\ DOMAIN stmts_indcs = CachedIds
    /\ Cardinality(CachedIds) = Len(stmts)
    /\ \A id \in DOMAIN stmts_indcs :
         /\ stmts_indcs[id] \in 0..(Len(stmts) - 1)
         /\ stmts[stmts_indcs[id] + 1].aux = id

\* a full cache of capacity 2 that has evicted and was rebuilt to its bound
C27_Witness ==
  /\ ~cb_failed
  /\ max_stmts = 2
  /\ n_evicted >= 2
  /\ Len(stmts) = 2
  /\ Cardinality(DOMAIN stmts_indcs) = 2
  /\ st_op = "build"

\* C28: when stmt_cb returns an error for one of the statements being
\* evicted and builder returns that error, every id still present in the
\* index map resolves to the statement that was inserted under it and the
\* statements already popped are no longer resolvable.
C28_CallbackFailureConsistent ==
  st_op = "builder_err" =>
    /\ \A id \in DOMAIN stmts_indcs :
         /\ GetByStmtCmdId(id) # None
         /\ GetByStmtCmdId(id)[1].aux = id
    /\ \A id \in gone : GetByStmtCmdId(id) = None

\* C29: a call of builder that returns a StatementBuilder on a cache of
\* fewer than max_stmts statements has called stmt_cb zero times and changed
\* nothing; on a cache at capacity it has called stmt_cb once for each of the
\* max(1, max_stmts / 2) statements built first, the oldest first, and as
\* many statements have left the cache.
C29_EvictionProtocol ==
  [][ (st_op' = "builder" /\ n_builder' = n_builder + 1) =>
        IF Len(stmts) < max_stmts
          THEN /\ cb_log' = <<>>
               /\ stmts' = stmts
               /\ stmts_indcs' = stmts_indcs
          ELSE /\ Len(cb_log') = Max(1, max_stmts \div 2)
               /\ cb_log' = SubSeq(fifo, 1, Len(cb_log'))
               /\ Len(stmts') = Len(stmts) - Len(cb_log')
    ]_vars

\* a builder was returned by a cache of capacity 4 that was full: two calls
\* of stmt_cb, for the statement built first and then for the second
C29_Witness ==
  /\ st_op = "builder"
  /\ sb # 0
  /\ max_stmts = 4
  /\ Len(stmts) = 2
  /\ cb_log = <<1, 2>>
  /\ CachedIds = {3, 4}
  /\ ~cb_failed

(***************************************************************************)
(* Further properties of the HTTP/2 server stream                          *)
(***************************************************************************)
\* the entry of id in map m is the same before and after the step
H2EntryKept(m, n, id) ==
  IF id \in DOMAIN m THEN id \in DOMAIN n /\ n[id] = m[id]
  ELSE id \notin DOMAIN n

\* C30: the step of recv_req that decides under the guard returns exactly
\* when the entry of its own stream has reached END_STREAM, whatever the
\* state of the other streams; it returns the stream buffer stored under its
\* own id, and it leaves the sorp and scrp entries, the position and the
\* result of every other stream as they are.
C30_RecvReqIsolated ==
  [][ \A s \in H2Handles :
        (h2_pc[s] = "recv_locked" /\ h2_pc'[s] # "recv_locked") =>
          /\ h2_pc'[s] = "recv_ok" <=>
               (StreamId(s) \in DOMAIN sorp
                  /\ RecvEos(sorp[StreamId(s)].stream_state))
          /\ h2_pc'[s] = "recv_ok" =>
               /\ h2_ret'[s][1] = sorp[StreamId(s)].sb
               /\ StreamId(s) \notin DOMAIN sorp'
               /\ StreamId(s) \in DOMAIN scrp'
          /\ \A id \in H2Ids \ {StreamId(s)} :
               /\ H2EntryKept(sorp, sorp', id)
               /\ H2EntryKept(scrp, scrp', id)
          /\ \A t \in H2Handles \ {s} :
               /\ h2_pc'[t] = h2_pc[t]
               /\ h2_ret'[t] = h2_ret[t]
    ]_vars

\* the second stream has its request while the first, whose recv_req is in
\* its loop, has taken a DATA frame and still waits for END_STREAM
C30_Witness ==
  /\ h2_pc[2] = "recv_ok"
  /\ h2_ret[2] # <<>>
  /\ h2_pc[1] = "recv_loop"
  /\ StreamId(1) \in DOMAIN sorp
  /\ sorp[StreamId(1)].stream_state = "Open"
  /\ sorp[StreamId(1)].sb = 1
  /\ StreamId(2) \notin DOMAIN sorp
  /\ StreamId(2) \in DOMAIN scrp

(***************************************************************************)
(* C31  entries of a stream in the two maps of the connection              *)
(***************************************************************************)
\* C31: no stream id is a key of both sorp and scrp, and once send_res has
\* returned Ok after a successful recv_req the id of the handle is a key of
\* neither map.
C31_EntriesUniqueAndEvicted ==
  /\ DOMAIN sorp \cap DOMAIN scrp = {}
  /\ \A s \in H2Handles :
       h2_pc[s] = "res_ok" =>
         /\ StreamId(s) \notin DOMAIN sorp
         /\ StreamId(s) \notin DOMAIN scrp

\* C31 witness: one handle has received its request and sent its response
\* while the other stream has an entry in scrp: its request was returned and
\* its response is still due.
C31_Witness ==
  \E s, u \in H2Handles :
    /\ s # u
    /\ h2_pc[s] = "res_ok"
    /\ h2_ret[s] # <<>>
    /\ h2_pc[u] = "recv_ok"
    /\ StreamId(u) \in DOMAIN scrp

(***************************************************************************)
(* C32  a request is returned at most once per stream                      *)
(***************************************************************************)
\* C32: once sorp holds no entry of a stream (its request was returned, or
\* the entry was removed by a reset), no step brings an entry back and no
\* step is a return of Ok from recv_req on that stream: a call made from then
\* on never yields a request, whatever frames are processed.
C32_AtMostOneRequest ==
  [][ \A s \in H2Handles :
        StreamId(s) \notin DOMAIN sorp =>
          /\ StreamId(s) \notin DOMAIN sorp'
          /\ ~(h2_pc[s] # "recv_ok" /\ h2_pc'[s] = "recv_ok")
    ]_vars

\* C32 witness: one handle has called recv_req again after its request was
\* returned, another after its entry was removed by a reset; both have been
\* through a turn of the loop in which a frame was processed.
C32_Witness ==
  \E s, u \in H2Handles :
    /\ h2_pc[s] = "recv_loop"
    /\ h2_ret[s] # <<>>
    /\ StreamId(s) \notin DOMAIN sorp
    /\ h2_pc[u] = "recv_loop"
    /\ h2_ret[u] = <<>>
    /\ StreamId(u) \notin DOMAIN sorp

(***************************************************************************)
(* C33  from_bytes and from_stream on the same bytes                       *)
(***************************************************************************)
\* the bytes hold a whole frame header as the wire format lays it out: the
\* first two bytes, the extended length of the length code and, with the
\* mask bit set, the four bytes of the masking key
WsCompleteHeader ==
  /\ WsHasLen
  /\ Len(ws_input) >= 2 + LenBytes(WsSentCode) + (IF WsMaskBit THEN 4 ELSE 0)

\* C33: on bytes that hold a whole frame header, from_bytes on the bytes and
\* from_stream on a stream that delivers the same bytes, in whatever chunks,
\* return the same ReadFrameInfo or the same error, for both roles, both
\* no_masking values, every compression capability and max_payload_len.
C33_SameParser ==
  (ws_pc = "stream_done" /\ WsCompleteHeader) => ws_sresult = ws_result

\* C33 witness: both have returned the same ReadFrameInfo for a masked frame
\* with a two-byte extended length, and the stream had bytes left over.
C33_Witness ==
  /\ ws_pc = "stream_done"
  /\ WsCompleteHeader
  /\ ws_result.ok
  /\ ws_sresult = ws_result
  /\ ws_result.val.header_len = 8
  /\ ws_result.val.mask # None
  /\ ws_stream # <<>>

(***************************************************************************)
(* C34  the decoded header against the wire format                         *)
(***************************************************************************)
\* the opcode of the low four bits of the first byte (RFC 6455, 5.2)
WsSentOpCode ==
  CASE ws_input[1] % 16 = 0 -> "Continuation"
    [] ws_input[1] % 16 = 1 -> "Text"
    [] ws_input[1] % 16 = 2 -> "Binary"
    [] ws_input[1] % 16 = 8 -> "Close"
    [] ws_input[1] % 16 = 9 -> "Ping"
    [] ws_input[1] % 16 = 10 -> "Pong"
    [] OTHER -> "none"

\* the bytes of the length on the wire: 2, 4 or 10 with the first two bytes
WsSentLenEnd ==
  CASE WsSentCode = 126 -> 4
    [] WsSentCode = 127 -> 10
    [] OTHER -> 2

\* a ReadFrameInfo that says what the bytes say
WsDecoded(res) ==
  res.ok =>
    /\ res.val.payload_len = WsSentLen
    /\ res.val.fin = WsSentFin
    /\ res.val.op_code = WsSentOpCode
    /\ res.val.mask # None <=> (~ws_is_client /\ ~ws_no_masking)
    /\ res.val.header_len =
         WsSentLenEnd + (IF res.val.mask # None THEN 4 ELSE 0)

\* C34: on success payload_len is the encoded length (the 7-bit code below
\* 126, else the next 2 or 8 bytes big-endian), fin and op_code are those of
\* the first byte, a mask is returned exactly by a server without no_masking
\* and never by a client, header_len is 2, 4 or 10 plus 4 exactly when a mask
\* is returned, and from_bytes has moved the cursor by header_len bytes.
C34_HeaderDecoding ==
  /\ WsBytesDone =>
       /\ WsDecoded(ws_result)
       /\ ws_result.ok => ws_bytes = Rest(ws_input, ws_result.val.header_len)
  /\ WsStreamDone => WsDecoded(ws_sresult)

\* C34 witness: a server has read a masked final Text frame of 5 bytes.
C34_Witness ==
  /\ ~ws_is_client
  /\ ~ws_no_masking
  /\ ws_input = <<FIN_MASK + 1, MASK_MASK + 5>> \o WsMaskKey \o <<7>>
  /\ ws_pc = "stream_done"
  /\ ws_result =
       Ok(ReadFrameInfo(TRUE, 6, Some(WsMaskKey), "Text", U64(5), FALSE))
  /\ ws_sresult = ws_result
  /\ ws_bytes = <<7>>

(***************************************************************************)
(* C35  reserved bits                                                      *)
(***************************************************************************)
\* the first byte has RSV2 or RSV3 set
WsSentRsv23 == (ws_input[1] \div RSV3_MASK) % 4 # 0

\* the two bytes that hold the reserved bits have arrived
WsHasFirstTwo == Len(ws_input) >= 2

WsRsvPolicy(res) ==
  /\ WsSentRsv23 =>
       /\ ~res.ok
       /\ WsHasFirstTwo => res.err = "InvalidCompressionHeaderParameter"
  /\ res.ok =>
       (res.val.should_decompress <=>
          (~ws_nc.is_noop /\ ws_nc.rsv1 # 0 /\ WsSentRsv1))

\* C35: a frame with RSV2 or RSV3 set is rejected whatever its opcode, length
\* and mask bit are, with the error of the reserved bits and, in from_bytes,
\* with the cursor just behind the first two bytes; an accepted frame has
\* should_decompress exactly when the compression is not the no-op one, its
\* rsv1() is non-zero and the RSV1 bit of the frame is set.
C35_ReservedBits ==
  /\ WsBytesDone =>
       /\ WsRsvPolicy(ws_result)
       /\ (WsSentRsv23 /\ WsHasFirstTwo) => ws_bytes = Rest(ws_input, 2)
  /\ WsStreamDone => WsRsvPolicy(ws_sresult)

\* C35 witness: a server that asks for masked frames was sent RSV2 in a frame
\* that also has a byte that is no opcode, a clear mask bit and an eight-byte
\* length; both readers return the error of the reserved bits.
C35_Witness ==
  /\ ~ws_is_client
  /\ ~ws_no_masking
  /\ ws_input[1] % 64 = RSV2_MASK + 3
  /\ Len(ws_input) >= 2
  /\ ws_input[2] = 127
  /\ ws_pc = "stream_done"
  /\ ws_result = Err("InvalidCompressionHeaderParameter")
  /\ ws_sresult = ws_result

(***************************************************************************)
(* C36  what simple_query_execute accepts                                  *)
(***************************************************************************)
\* the message types the loop goes on after, the types it knows
PgGoOn == {"CommandComplete", "EmptyQueryResponse"}

PgKnown == PgGoOn \cup {"ReadyForQuery"}

\* Ok is returned only when all that was read before the ReadyForQuery was a
\* CommandComplete or an EmptyQueryResponse
PgOkOnlyAfterKnown ==
  (pg_pc = "returned" /\ pg_ret.ok) =>
    /\ PgReadToReady
    /\ \A i \in 1..(Len(pg_read) - 1) : pg_read[i].ty \in PgGoOn

\* a message of one of the types `other` ends the call where it was read:
\* it is the last message read, the call has returned UnexpectedDatabaseMessage
\* with its tag, and the callback ran for the messages before it only
PgRejectedAtOnce(other) ==
  \A i \in 1..Len(pg_read) :
    pg_read[i].ty \in other =>
      /\ i = Len(pg_read)
      /\ pg_pc = "returned"
      /\ pg_ret = UnexpectedDatabaseMessage(MsgTag(pg_read[i]))
      /\ pg_cb = PgExpectedCb(SubSeq(pg_read, 1, i - 1))

\* an ErrorResponse ends the call where it was read with the database error
PgErrorResponseAtOnce ==
  \A i \in 1..Len(pg_read) :
    pg_read[i].ty = "ErrorResponse" =>
      /\ i = Len(pg_read)
      /\ pg_pc = "returned"
      /\ pg_ret = Err("DbError")
      /\ pg_cb = PgExpectedCb(SubSeq(pg_read, 1, i - 1))

PgTypes == {m.ty : m \in PgMsgs}

DbHas(tag) == DbSent(tag) # None

\* the range of the value of the field of the tag in the body
DbSentRange(tag) ==
  LET i == CHOOSE j \in 1..Len(db_fields) : db_fields[j].tag = tag
      begin == Len(FieldBytes(SubSeq(db_fields, 1, i - 1))) + 1
  IN <<begin, begin + Len(db_fields[i].data)>>

\* the position the fields of the body ask for
DbSentPosition ==
  IF DbHas(TagP)
    THEN Some([ty |-> "Original",
               position |-> FromRadix10(DbSent(TagP)[1]).val, query |-> <<>>])
  ELSE IF DbHas(Tag_p)
    THEN Some([ty |-> "Internal",
               position |-> FromRadix10(DbSent(Tag_p)[1]).val,
               query |-> DbSentRange(Tag_q)])
  ELSE None

\* C37: position() is Original(P) whenever the body has a P field, with or
\* without p; Internal { position: p, query } when it has p and q and no P;
\* None when it has neither P nor p; try_from fails when p comes without P
\* and without q, and whenever C, M or S is missing.
C37_PositionPrecedence ==
  db_ret # <<>> =>
    /\ (~DbHas(TagC) \/ ~DbHas(TagM) \/ ~DbHas(TagS)) => ~db_ret.ok
    /\ (DbHas(Tag_p) /\ ~DbHas(TagP) /\ ~DbHas(Tag_q)) => ~db_ret.ok
    /\ db_ret.ok => db_ret.val.position = DbSentPosition

\* the body holds a character of more than one byte where a tag stands
DbSentWideTag == \E i \in 1..Len(db_fields) : db_fields[i].tag >= 128

\* the same for the bodies in which every tag is a single byte
DbPositionOfPlainBody == DbSentWideTag \/ C37_PositionPrecedence

(***************************************************************************)
(* Properties of the string searches                                       *)
(***************************************************************************)
\* the places of the string, counted from 0, at which the byte stands
OptPlaces == {i - 1 : i \in {j \in 1..Len(opt_str) : opt_str[j] = opt_elem}}

\* the last of them
OptLast == CHOOSE i \in OptPlaces : \A j \in OptPlaces : j <= i

\* C38: str_rpos1 returns the index, counted from the start of the string, of
\* the last occurrence of elem, None when there is none, and a build without
\* memchr returns what a build with memchr returns.
C38_LastIndexFromStart ==
  "str_rpos1" \in opt_done =>
    /\ opt_rpos = (IF OptPlaces = {} THEN None ELSE Some(OptLast))
    /\ opt_rpos = StrRpos1(opt_str, opt_elem, ~opt_memchr)

\* C39: str_rsplit_once1 returns None when elem is absent and otherwise what
\* stands before the last occurrence of elem and what stands behind it, so
\* that it differs from str_split_once1 whenever elem occurs more than once.
C39_SplitAtLast ==
  {"str_rsplit_once1", "str_split_once1"} \subseteq opt_done =>
    /\ OptPlaces = {} => opt_rsplit = None
    /\ OptPlaces # {} =>
         opt_rsplit = Some(<<SubSeq(opt_str, 1, OptLast),
                             SubSeq(opt_str, OptLast + 2, Len(opt_str))>>)
    /\ Cardinality(OptPlaces) > 1 => opt_rsplit # opt_split

====
